---------------------------- MODULE Spec2Model ----------------------------
(***************************************************************************)
(* Model of the RAG pipeline of the SaiV backend:                          *)
(*   - app/utils/chunking.py        clean_text, chunk_text                 *)
(*   - app/services/embeddings.py   generate_embeddings and its providers  *)
(*   - app/services/rag_service.py  upsert_document, retrieve_context      *)
(*   - app/services/ai_service.py   generation chain, _parse_json_array    *)
(*   - app/api/routes               the flashcards, quiz and chat routes   *)
(* Strings are sequences of one-character strings.                         *)
(***************************************************************************)
EXTENDS Integers, Sequences, FiniteSets, TLC

(***************************************************************************)
(* Bounds of the model.                                                    *)
(***************************************************************************)
MaxTextLen == 6
MaxChunkSize == 4
MaxOverlap == 3
MaxBatches == 2         \* full batches in the longest input list
MaxDim == 2             \* largest configured embedding_dimensions
MaxNativeDim == 2       \* largest vector length a provider emits
MaxTopK == 2            \* largest top_k / configured max_retrieval_chunks
MaxRows == 3            \* most chunk rows the store holds for one document
MaxDocSentences == 3    \* most sentences in a content handed to upsert_document
MaxFailAt == 3          \* the latest store write of an upsert that can be made to fail
MaxItems == 1           \* most items parsed from one provider response
MaxFragments == 2       \* most fragments one provider stream emits
MaxExtra == 2           \* a content is at most this much longer than max_chars
MaxResponseLen == 3     \* longest provider response drawn symbol by symbol
MaxOptions == 7         \* most options in a quiz item of a provider response
ScenarioChunkSize == 8  \* chunk_size of the ingestion scenario
MaxRequests == 2        \* requests served by the process at the same time
ScenarioOverlap == 4    \* overlap of the ingestion scenario

\* embeddings.py 41 and 114: batch_size
BatchSize == 100

\* max_chars of the flashcards and quiz provider functions (ai_service.py 105)
max_chars == 12000

Alphabet == {"a", ".", " ", "\n"}

(***************************************************************************)
(* Generic sequence helpers.                                               *)
(***************************************************************************)
Min(a, b) == IF a <= b THEN a ELSE b

Take(s, n) == SubSeq(s, 1, Min(n, Len(s)))

Drop(s, n) == SubSeq(s, n + 1, Len(s))

RECURSIVE SeqsUpTo(_, _)
SeqsUpTo(S, n) ==
    IF n = 0 THEN {<<>>}
    ELSE LET shorter == SeqsUpTo(S, n - 1)
         IN  shorter \cup {Append(s, c) : s \in {t \in shorter : Len(t) = n - 1}, c \in S}

IsPrefix(p, s) == Len(p) <= Len(s) /\ SubSeq(s, 1, Len(p)) = p

IsSuffix(p, s) == Len(p) <= Len(s) /\ SubSeq(s, Len(s) - Len(p) + 1, Len(s)) = p

(***************************************************************************)
(* Python string primitives used by chunking.py.                           *)
(***************************************************************************)
\* the characters matched by \s and stripped by str.strip()
IsSpace(c) == c \in {" ", "\n", "\t", "\r"}

IsTerminal(c) == c \in {".", "!", "?"}

\* length of the maximal run of whitespace at the head of s
RECURSIVE SpaceRunLen(_)
SpaceRunLen(s) ==
    IF s = <<>> \/ ~IsSpace(Head(s)) THEN 0 ELSE 1 + SpaceRunLen(Tail(s))

\* length of the maximal run of newlines at the head of s
RECURSIVE NewlineRunLen(_)
NewlineRunLen(s) ==
    IF s = <<>> \/ Head(s) # "\n" THEN 0 ELSE 1 + NewlineRunLen(Tail(s))

\* re.sub(r"\s+", " ", text)
RECURSIVE CollapseWhitespace(_)
CollapseWhitespace(s) ==
    IF s = <<>> THEN <<>>
    ELSE IF IsSpace(Head(s))
         THEN <<" ">> \o CollapseWhitespace(Drop(s, SpaceRunLen(s)))
         ELSE <<Head(s)>> \o CollapseWhitespace(Tail(s))

\* re.sub(r"\n{3,}", "\n\n", text)
RECURSIVE CapNewlines(_)
CapNewlines(s) ==
    IF s = <<>> THEN <<>>
    ELSE IF NewlineRunLen(s) >= 3
         THEN <<"\n", "\n">> \o CapNewlines(Drop(s, NewlineRunLen(s)))
         ELSE <<Head(s)>> \o CapNewlines(Tail(s))

\* str.strip()
RECURSIVE LStrip(_)
LStrip(s) == IF s # <<>> /\ IsSpace(Head(s)) THEN LStrip(Tail(s)) ELSE s

RECURSIVE RStrip(_)
RStrip(s) ==
    IF s # <<>> /\ IsSpace(s[Len(s)]) THEN RStrip(SubSeq(s, 1, Len(s) - 1)) ELSE s

Strip(s) == RStrip(LStrip(s))

\* sep.join(parts)
RECURSIVE Join(_, _)
Join(parts, sep) ==
    IF parts = <<>> THEN <<>>
    ELSE IF Len(parts) = 1 THEN parts[1]
    ELSE parts[1] \o sep \o Join(Tail(parts), sep)

(***************************************************************************)
(* clean_text (chunking.py 7-15): the whitespace pass runs first, so the   *)
(* newline pass sees a text that holds no newline any more.                *)
(***************************************************************************)
clean_text(t) ==
    IF t = <<>> THEN <<>>
    ELSE Strip(CapNewlines(CollapseWhitespace(t)))

(***************************************************************************)
(* re.split(r"(?<=[.!?])\s+|\n+", text): scan left to right; at position p *)
(* the first alternative needs a terminal character just before p and      *)
(* takes the whole whitespace run, the second takes a run of newlines.     *)
(***************************************************************************)
SplitMatchLen(s, p) ==
    IF p > 1 /\ IsTerminal(s[p - 1]) /\ IsSpace(s[p])
    THEN SpaceRunLen(Drop(s, p - 1))
    ELSE NewlineRunLen(Drop(s, p - 1))

RECURSIVE ReSplit(_, _, _)
ReSplit(s, p, start) ==
    IF p > Len(s) THEN <<SubSeq(s, start, Len(s))>>
    ELSE LET m == SplitMatchLen(s, p)
         IN  IF m > 0
             THEN <<SubSeq(s, start, p - 1)>> \o ReSplit(s, p + m, p + m)
             ELSE ReSplit(s, p + 1, start)

\* chunking.py 33-34: split, strip every piece, keep the non-empty ones
split_sentences(t) ==
    LET pieces == ReSplit(t, 1, 1)
        stripped == [k \in 1..Len(pieces) |-> Strip(pieces[k])]
    IN  SelectSeq(stripped, LAMBDA x : x # <<>>)


(***************************************************************************)
(* State.                                                                  *)
(***************************************************************************)
VARIABLES
    \* chunk_text: arguments, locals and program position
    text, chunk_size, overlap, sentences, idx, chunks, current_chunk,
    current_length,
    seeds,      \* seeds[i]: the overlap_text computed when chunks[i] was closed
    cpc         \* "idle" | "start" | "loop" | "done"

chunkVars == <<text, chunk_size, overlap, sentences, idx, chunks, current_chunk,
               current_length, seeds, cpc>>

VARIABLES
    \* configuration and environment of one generate_embeddings call
    settings,   \* the Settings fields the pipeline reads (read-only)
    env,        \* what the providers would do if asked
    \* generate_embeddings: argument, locals and program position
    texts, i, all_embeddings,
    epc,        \* "idle" | "start" | "openai" | "hosted2" | "local" | "returned" | "raised"
    eresult,    \* the value returned or the exception raised
    attempts,   \* the providers tried, in order, each with its outcome
    requests    \* the requests sent to provider APIs / the local model, in order

embedVars == <<settings, env, texts, i, all_embeddings, epc, eresult, attempts, requests>>

VARIABLES
    \* the external store and what its queries would do
    store_chunks,   \* the rows of table document_chunks
    renv,           \* supabase configured? RPC and select available?
    \* retrieve_context: arguments, locals and program position
    document_id, query, top_k,
    data,           \* result.data / chunks_result.data of the last store query
    queries,        \* the store queries issued, in order
    rpc,            \* "idle" | "start" | "embedding" | "rpc" | "fallback" | "done" | "raised"
    rresult         \* the string returned or the exception raised

retrieveVars == <<store_chunks, renv, document_id, query, top_k, data, queries, rpc,
                  rresult>>

VARIABLES
    \* the documents table and which store write would fail
    store_documents,    \* the ids of the rows of table documents
    uenv,               \* fail_at: the number of the store write that raises (0: none)
    \* upsert_document: arguments, locals and program position; its document_id
    \* argument is held by document_id, its chunks by the chunker's chunks
    content,
    embeddings,
    chunk_rows,         \* the list rows of lines 73-82
    row,                \* position of the loop "for row in rows"
    writes,             \* the store writes issued, in order
    upc,                \* "idle" | "start" | "chunking" | "embedding" | "insert_document"
                        \* | "delete" | "insert_chunks" | "returned" | "raised"
    uresult             \* the count returned or the exception raised

upsertVars == <<store_documents, uenv, content, embeddings, chunk_rows, row, writes, upc,
                uresult>>

VARIABLES
    \* generate_flashcards / generate_quiz / chat_completion_stream: the call,
    \* its program position and what it has done; settings holds the configuration
    task,       \* "flashcards" | "quiz" | "chat"
    messages,   \* the chat route's messages, each by its role
    gpc,        \* "idle" | "start" | "gemini_first" | "openai" | "gemini_fallback"
                \* | "gemini_last" | "returned" | "raised" | "cancelled"
    ginv,       \* provider functions invoked so far
    tries,      \* API calls made by the provider function in progress
    gcalls,     \* the API calls made to generation providers, in order
    gresult,    \* the items returned or the exception raised
    \* the chat stream
    buffer,     \* the list chunks of _gemini_stream_sync, then of _chat_stream_gemini
    gthread,    \* the executor thread running _gemini_stream_sync:
                \* "idle" | "running" | "done" | "failed"
    gerror,     \* the exception the executor thread ended with
    yielded,    \* the fragments chat_completion_stream has yielded, in order
    connected,  \* the consumer of the stream is still reading
    sse         \* what _stream_generator has sent to the client, in order

genVars == <<task, messages, gpc, ginv, tries, gcalls, gresult, buffer, gthread, gerror, yielded,
             connected, sse>>

VARIABLES
    \* one provider response on its way through _parse_json_array, a provider
    \* function and a route
    response_text,  \* the text of the provider's response
    raw,            \* _parse_json_array: raw
    json_text,      \* _parse_json_array: text after the fence handling
    parsed_items,   \* what _parse_json_array returned, then the provider function's items
    quiz_items,     \* the list the route builds
    kept_idx,       \* for each element of quiz_items, the index of the item it was built from
    http,           \* the outcome of the route
    ppc             \* "idle" | "respond" | "strip" | "loads" | "extract" | "parsed" |
                    \* "route" | "done"

parseVars == <<response_text, raw, json_text, parsed_items, quiz_items, kept_idx, http, ppc>>

VARIABLES
    \* the event loop of the process and the requests it serves
    loop_owner,     \* the request whose code the loop's thread is running, 0 for none
    reqs,           \* for each request, the operation it runs and where it is
    inflight        \* the outstanding calls: [req, kind], kind "embed" | "store"

loopVars == <<loop_owner, reqs, inflight>>

vars == <<chunkVars, embedVars, retrieveVars, upsertVars, genVars, parseVars,
         loopVars>>

(***************************************************************************)
(* Settings (config.py 9-44) and the providers' environment.               *)
(***************************************************************************)
\* the attributes class Settings declares; reading any other attribute of the
\* settings object raises AttributeError
SettingsFields ==
    {"app_name", "debug", "supabase_url", "supabase_service_key", "supabase_anon_key",
     "openai_api_key", "openai_model", "embedding_model", "embedding_dimensions",
     "embedding_fallback_to_local", "gemini_api_key", "gemini_model", "ai_provider",
     "max_pdf_pages", "max_chunk_size", "chunk_overlap", "max_retrieval_chunks",
     "cors_origins", "model_config"}

Providers == {"openai", "gemini", "local"}

\* what an OpenAI request can fail with (embeddings.py 125-132 tells an invalid
\* key from the rest when logging)
ErrorKinds == {"rate_limit", "auth", "other"}

SettingsSet ==
    [openai_api_key : BOOLEAN,
     gemini_api_key : BOOLEAN,
     embedding_fallback_to_local : BOOLEAN,
     embedding_dimensions : 1..MaxDim,
     max_retrieval_chunks : {MaxTopK}]

EnvSet ==
    [native : [Providers -> 1..MaxNativeDim],  \* vector length each provider emits
     gemini_up : BOOLEAN,                     \* embed_content would answer
     local : {"ok", "missing", "error"},      \* fastembed: works / not installed / fails
     off : {0}]                               \* vectors in a hosted response, less the inputs

\* the input lists: empty, short, and around the batch boundaries
TextCounts ==
    {0, 1, BatchSize, BatchSize + 1, MaxBatches * BatchSize + 1}

TextList(n) == [k \in 1..n |-> k]

(***************************************************************************)
(* Vectors.  A vector stands for arr[k] / sqrt(norm2); src and of record   *)
(* which provider embedded which text.                                     *)
(***************************************************************************)
\* the vector provider p emits for text t, d components long
ProviderVector(p, t, d) ==
    [src |-> p, of |-> t, arr |-> [k \in 1..d |-> (t + k) % 2], norm2 |-> 1]

\* one provider response: a vector per input of the batch, in input order
ProviderResponse(p, batch, d) ==
    [k \in 1..Len(batch) |-> ProviderVector(p, batch[k], d)]

\* what the client of a hosted provider finds in a response (response.data,
\* result["embedding"]): the vectors of the batch, or one fewer, or one more
\* that is of no input
HostedResponse(p, batch, e) ==
    LET vs == ProviderResponse(p, batch, e.native[p])
    IN  IF e.off < 0 THEN SubSeq(vs, 1, Len(vs) - 1)
        ELSE IF e.off > 0 THEN Append(vs, ProviderVector(p, 0, e.native[p]))
        ELSE vs

RECURSIVE SumSq(_)
SumSq(arr) == IF arr = <<>> THEN 0 ELSE Head(arr) * Head(arr) + SumSq(Tail(arr))

\* embeddings.py 23-28 (and 75-81): pad or truncate one vector, then normalize
PadAndNormalizeOne(v, target_dim) ==
    LET arr == IF Len(v.arr) < target_dim
               THEN v.arr \o [k \in 1..(target_dim - Len(v.arr)) |-> 0]
               ELSE SubSeq(v.arr, 1, target_dim)
        n2 == SumSq(arr)
    IN  [src |-> v.src, of |-> v.of, arr |-> arr, norm2 |-> IF n2 = 0 THEN 1 ELSE n2]

\* embeddings.py 19-29
_pad_and_normalize(vectors, target_dim) ==
    [k \in 1..Len(vectors) |-> PadAndNormalizeOne(vectors[k], target_dim)]

\* a batch slice that stops one item early
Batch_short(ts, from) == SubSeq(ts, from + 1, Min(from + BatchSize - 1, Len(ts)))

\* texts[i : i + batch_size]
Batch(ts, from) == SubSeq(ts, from + 1, Min(from + BatchSize, Len(ts)))

Request(p, from, batch) == [provider |-> p, first |-> from, items |-> Len(batch)]

Returned(vectors) == [kind |-> "ok", vectors |-> vectors, exc |-> "", msg |-> ""]

Raised(exc, msg) == [kind |-> "raise", vectors |-> <<>>, exc |-> exc, msg |-> msg]

NoResult == [kind |-> "none", vectors |-> <<>>, exc |-> "", msg |-> ""]

(***************************************************************************)
(* _embed_gemini_sync (embeddings.py 32-55), run in the executor and       *)
(* awaited by _generate_embeddings_gemini (89-95).  Line 39 reads          *)
(* settings.gemini_embedding_model before the first request is built.  The  *)
(* length of the vectors in a response is the provider's, whatever          *)
(* output_dimensionality the request carries.                               *)
(***************************************************************************)
RECURSIVE GeminiBatches(_, _, _)
GeminiBatches(ts, from, e) ==
    IF from >= Len(ts) THEN [vectors |-> <<>>, requests |-> <<>>]
    ELSE LET batch == Batch(ts, from)
             rest == GeminiBatches(ts, from + BatchSize, e)
         IN  [vectors |-> HostedResponse("gemini", batch, e) \o rest.vectors,
              requests |-> <<Request("gemini", from, batch)>> \o rest.requests]

_embed_gemini_sync(ts, target_dim, e) ==
    IF "gemini_embedding_model" \notin SettingsFields
    THEN [result |-> Raised("AttributeError", "gemini_embedding_model"),
          requests |-> <<>>]
    ELSE IF ~e.gemini_up
    THEN [result |-> Raised("ProviderError", "gemini"),
          requests |-> <<Request("gemini", 0, Batch(ts, 0))>>]
    ELSE LET run == GeminiBatches(ts, 0, e)
         IN  [result |-> Returned(_pad_and_normalize(run.vectors, target_dim)),
              requests |-> run.requests]

(***************************************************************************)
(* _embed_local_sync (embeddings.py 58-82): one model.embed call on the    *)
(* whole list.                                                             *)
(***************************************************************************)
_embed_local_sync(ts, target_dim, e) ==
    IF e.local = "missing"
    THEN [result |-> Raised("ValueError", "Local embedding fallback requires 'fastembed'"),
          requests |-> <<>>]
    ELSE IF e.local = "error"
    THEN [result |-> Raised("ProviderError", "local"),
          requests |-> <<[provider |-> "local", first |-> 0, items |-> Len(ts)]>>]
    ELSE [result |-> Returned(_pad_and_normalize(
                         ProviderResponse("local", ts, e.native["local"]), target_dim)),
          requests |-> <<[provider |-> "local", first |-> 0, items |-> Len(ts)]>>]

(***************************************************************************)
(* generate_embeddings (embeddings.py 98-158).                             *)
(***************************************************************************)
Attempt(p) == [provider |-> p, outcome |-> "running", error |-> ""]

\* the last attempt, closed with its outcome
Closed(as, outcome, error) ==
    [as EXCEPT ![Len(as)] = [@ EXCEPT !.outcome = outcome, !.error = error]]

\* EmbedEntry without the empty-input return of lines 103-104
EmbedEntry_noempty ==
    /\ epc = "start"
    /\ IF settings.openai_api_key
       THEN /\ epc' = "openai"
            /\ attempts' = Append(attempts, Attempt("openai"))
       ELSE /\ epc' = "hosted2"
            /\ attempts' = attempts
    /\ i' = 0
    /\ all_embeddings' = <<>>
    /\ UNCHANGED <<settings, env, texts, requests, eresult>>
    /\ UNCHANGED <<chunkVars, retrieveVars, upsertVars, genVars, parseVars, loopVars>>

\* embeddings.py 103-110, 134-135
EmbedEntry ==
    /\ epc = "start"
    /\ IF texts = <<>>
       THEN /\ epc' = "returned"
            /\ eresult' = Returned(<<>>)
            /\ attempts' = attempts
       ELSE IF settings.openai_api_key
       THEN /\ epc' = "openai"
            /\ eresult' = eresult
            /\ attempts' = Append(attempts, Attempt("openai"))
       ELSE /\ epc' = "hosted2"
            /\ eresult' = eresult
            /\ attempts' = attempts
    /\ i' = 0
    /\ all_embeddings' = <<>>
    /\ UNCHANGED <<settings, env, texts, requests>>
    /\ UNCHANGED <<chunkVars, retrieveVars, upsertVars, genVars, parseVars, loopVars>>

\* embeddings.py 116-123: one request of the batch loop answered
OpenAIBatchOk ==
    /\ epc = "openai"
    /\ i < Len(texts)
    /\ LET batch == Batch(texts, i)
       IN  /\ requests' = Append(requests, Request("openai", i, batch))
           /\ all_embeddings' =
                  all_embeddings \o HostedResponse("openai", batch, env)
    /\ i' = i + BatchSize
    /\ UNCHANGED <<settings, env, texts, epc, eresult, attempts>>
    /\ UNCHANGED <<chunkVars, retrieveVars, upsertVars, genVars, parseVars, loopVars>>

\* embeddings.py 118-133: one request of the batch loop raises; the handler logs
\* and falls through to line 138
OpenAIBatchFails ==
    /\ epc = "openai"
    /\ i < Len(texts)
    /\ \E kind \in ErrorKinds :
          attempts' = Closed(attempts, "error", kind)
    /\ requests' = Append(requests, Request("openai", i, Batch(texts, i)))
    /\ epc' = "hosted2"
    /\ UNCHANGED <<settings, env, texts, i, all_embeddings, eresult>>
    /\ UNCHANGED <<chunkVars, retrieveVars, upsertVars, genVars, parseVars, loopVars>>

\* the batch loop ends without "return all_embeddings": control falls through
OpenAIReturn_fallthrough ==
    /\ epc = "openai"
    /\ i >= Len(texts)
    /\ attempts' = Closed(attempts, "ok", "")
    /\ epc' = "hosted2"
    /\ UNCHANGED <<settings, env, texts, i, all_embeddings, requests, eresult>>
    /\ UNCHANGED <<chunkVars, retrieveVars, upsertVars, genVars, parseVars, loopVars>>

\* embeddings.py 124
OpenAIReturn ==
    /\ epc = "openai"
    /\ i >= Len(texts)
    /\ eresult' = Returned(all_embeddings)
    /\ attempts' = Closed(attempts, "ok", "")
    /\ epc' = "returned"
    /\ UNCHANGED <<settings, env, texts, i, all_embeddings, requests>>
    /\ UNCHANGED <<chunkVars, retrieveVars, upsertVars, genVars, parseVars, loopVars>>

\* embeddings.py 85-86
_gemini_available == settings.gemini_api_key

\* embeddings.py 138-145
GeminiAttempt ==
    /\ epc = "hosted2"
    /\ _gemini_available
    /\ LET run == _embed_gemini_sync(texts, settings.embedding_dimensions, env)
       IN  /\ requests' = requests \o run.requests
           /\ IF run.result.kind = "ok"
              THEN /\ eresult' = run.result
                   /\ epc' = "returned"
                   /\ attempts' = Closed(Append(attempts, Attempt("gemini")), "ok", "")
              ELSE /\ attempts' = Closed(Append(attempts, Attempt("gemini")),
                                         "error", run.result.exc)
                   /\ IF ~settings.embedding_fallback_to_local
                      THEN /\ eresult' = Raised("ValueError", "Embedding generation failed")
                           /\ epc' = "raised"
                      ELSE /\ eresult' = eresult
                           /\ epc' = "local"
    /\ UNCHANGED <<settings, env, texts, i, all_embeddings>>
    /\ UNCHANGED <<chunkVars, retrieveVars, upsertVars, genVars, parseVars, loopVars>>

\* GeminiSkipped without the embedding_fallback_to_local test of line 147
GeminiSkipped_nocheck ==
    /\ epc = "hosted2"
    /\ ~_gemini_available
    /\ epc' = "local"
    /\ UNCHANGED <<settings, env, texts, i, all_embeddings, attempts, requests, eresult>>
    /\ UNCHANGED <<chunkVars, retrieveVars, upsertVars, genVars, parseVars, loopVars>>

\* embeddings.py 146-151
GeminiSkipped ==
    /\ epc = "hosted2"
    /\ ~_gemini_available
    /\ IF ~settings.embedding_fallback_to_local
       THEN /\ eresult' = Raised("ValueError", "No embedding provider available")
            /\ epc' = "raised"
       ELSE /\ eresult' = eresult
            /\ epc' = "local"
    /\ UNCHANGED <<settings, env, texts, i, all_embeddings, attempts, requests>>
    /\ UNCHANGED <<chunkVars, retrieveVars, upsertVars, genVars, parseVars, loopVars>>

\* a local fallback that keeps the vectors of the batches the paid provider
\* answered before it failed
LocalFallback_keeping ==
    /\ epc = "local"
    /\ LET run == _embed_local_sync(texts, settings.embedding_dimensions, env)
       IN  /\ requests' = requests \o run.requests
           /\ eresult' = IF run.result.kind = "ok"
                         THEN Returned(all_embeddings \o run.result.vectors)
                         ELSE run.result
           /\ epc' = IF run.result.kind = "ok" THEN "returned" ELSE "raised"
           /\ attempts' = Closed(Append(attempts, Attempt("local")),
                                 IF run.result.kind = "ok" THEN "ok" ELSE "error",
                                 run.result.exc)
    /\ UNCHANGED <<settings, env, texts, i, all_embeddings>>
    /\ UNCHANGED <<chunkVars, retrieveVars, upsertVars, genVars, parseVars, loopVars>>

\* embeddings.py 153-158
LocalFallback ==
    /\ epc = "local"
    /\ LET run == _embed_local_sync(texts, settings.embedding_dimensions, env)
       IN  /\ requests' = requests \o run.requests
           /\ eresult' = run.result
           /\ epc' = IF run.result.kind = "ok" THEN "returned" ELSE "raised"
           /\ attempts' = Closed(Append(attempts, Attempt("local")),
                                 IF run.result.kind = "ok" THEN "ok" ELSE "error",
                                 run.result.exc)
    /\ UNCHANGED <<settings, env, texts, i, all_embeddings>>
    /\ UNCHANGED <<chunkVars, retrieveVars, upsertVars, genVars, parseVars, loopVars>>

EmbedLocalsInit ==
    /\ i = 0
    /\ all_embeddings = <<>>
    /\ eresult = NoResult
    /\ attempts = <<>>
    /\ requests = <<>>

\* no generate_embeddings call in progress
EmbedIdle ==
    /\ settings = [openai_api_key |-> FALSE, gemini_api_key |-> FALSE,
                   embedding_fallback_to_local |-> TRUE, embedding_dimensions |-> 1,
                   max_retrieval_chunks |-> MaxTopK]
    /\ env = [native |-> [p \in Providers |-> 1], gemini_up |-> TRUE, local |-> "ok",
              off |-> 0]
    /\ texts = <<>>
    /\ EmbedLocalsInit
    /\ epc = "idle"

EmbedActions ==
    \/ EmbedEntry
    \/ OpenAIBatchOk
    \/ OpenAIBatchFails
    \/ OpenAIReturn
    \/ GeminiAttempt
    \/ GeminiSkipped
    \/ LocalFallback

(***************************************************************************)
(* The document store (Supabase), as rag_service.py uses it.               *)
(***************************************************************************)
Documents == {"A", "B"}

Digits == <<"0", "1", "2", "3", "4", "5", "6", "7", "8", "9">>

\* the content of chunk number n of document d: a two-character string
ContentOf(d, n) == <<d, Digits[n + 1]>>

ChunkRow(d, n) == [document_id |-> d, chunk_index |-> n, content |-> ContentOf(d, n)]

\* the rows of document d in table t
RowsOf(t, d) == {r \in t : r.document_id = d}

\* the sequences of n distinct elements of S
RECURSIVE Arrangements(_, _)
Arrangements(S, n) ==
    IF n = 0 THEN {<<>>}
    ELSE UNION {{<<x>> \o rest : rest \in Arrangements(S \ {x}, n - 1)} : x \in S}

\* RPC match_document_chunks(query_embedding, match_document_id, match_count):
\* the match_count nearest rows of the document, nearest first; nothing when the
\* function finds no row it can rank.  The ranking is the store's.
similarity_search(t, query_embedding, d, match_count) ==
    Arrangements(RowsOf(t, d), Min(match_count, Cardinality(RowsOf(t, d)))) \cup {<<>>}

\* table("document_chunks").select("content").eq("document_id", d).limit(n):
\* up to n rows of the document, in no particular order
list_chunks(t, d, n) ==
    Arrangements(RowsOf(t, d), Min(n, Cardinality(RowsOf(t, d))))

(***************************************************************************)
(* retrieve_context (rag_service.py 91-135).                               *)
(***************************************************************************)
\* the delimiter of lines 132 and 135: "\n\n---\n\n"
Delimiter == <<"\n", "\n", "-", "-", "-", "\n", "\n">>

Contents(rows) == [k \in 1..Len(rows) |-> rows[k].content]

\* rag_service.py 102: top_k = top_k or settings.max_retrieval_chunks
\* (an absent top_k is None; None and 0 are both falsy and are modelled as 0)
effective_top_k(k, cfg) == IF k = 0 THEN cfg.max_retrieval_chunks ELSE k

\* the fallback context without the chunks[:top_k] cut
fallback_context_uncut(rows, k) == Join(Contents(rows), Delimiter)

\* rag_service.py 131-132
fallback_context(rows, k) ==
    IF Contents(rows) # <<>> THEN Join(Take(Contents(rows), k), Delimiter) ELSE <<>>

\* rag_service.py 134-135
rpc_context(rows) ==
    IF Contents(rows) # <<>> THEN Join(Contents(rows), Delimiter) ELSE <<>>

StoreQuery(op, d, n) == [op |-> op, document_id |-> d, limit |-> n]

RReturned(value) == [kind |-> "ok", value |-> value, exc |-> "", msg |-> ""]

RRaised(exc, msg) == [kind |-> "raise", value |-> <<>>, exc |-> exc, msg |-> msg]

RNoResult == [kind |-> "none", value |-> <<>>, exc |-> "", msg |-> ""]

\* rag_service.py 100-105 (get_supabase_client: 16-20)
RetrieveStart ==
    /\ rpc = "start"
    /\ epc = "idle"
    /\ IF ~renv.supabase_configured
       THEN /\ rresult' = RRaised("ValueError",
                                  "Supabase URL and service key must be configured")
            /\ rpc' = "raised"
            /\ UNCHANGED <<top_k, texts, epc>>
       ELSE /\ top_k' = effective_top_k(top_k, settings)
            /\ texts' = <<query>>
            /\ epc' = "start"
            /\ rpc' = "embedding"
            /\ UNCHANGED rresult
    /\ UNCHANGED <<store_chunks, renv, document_id, query, data, queries>>
    /\ UNCHANGED <<settings, env, i, all_embeddings, eresult, attempts, requests>>
    /\ UNCHANGED <<chunkVars, upsertVars, genVars, parseVars, loopVars>>

\* rag_service.py 105-106: generate_embeddings has returned or raised
RetrieveEmbedded ==
    /\ rpc = "embedding"
    /\ epc \in {"returned", "raised"}
    /\ IF epc = "raised"
       THEN /\ rresult' = RRaised(eresult.exc, eresult.msg)
            /\ rpc' = "raised"
       ELSE IF eresult.vectors = <<>>
       THEN /\ rresult' = RRaised("IndexError", "list index out of range")
            /\ rpc' = "raised"
       ELSE /\ rresult' = rresult
            /\ rpc' = "rpc"
    /\ epc' = "idle"
    /\ UNCHANGED <<store_chunks, renv, document_id, query, top_k, data, queries>>
    /\ UNCHANGED <<settings, env, texts, i, all_embeddings, eresult, attempts, requests>>
    /\ UNCHANGED <<chunkVars, upsertVars, genVars, parseVars, loopVars>>

\* rag_service.py 111-120, 134-135: the similarity RPC
RetrieveRpc ==
    /\ rpc = "rpc"
    /\ queries' = Append(queries, StoreQuery("rpc", document_id, top_k))
    /\ IF ~renv.rpc_available
       THEN /\ rresult' = RRaised("APIError", "match_document_chunks")
            /\ rpc' = "raised"
            /\ data' = data
       ELSE \E rows \in similarity_search(store_chunks, eresult.vectors[1],
                                          document_id, top_k) :
                /\ data' = rows
                /\ IF rows = <<>>
                   THEN /\ rpc' = "fallback"
                        /\ rresult' = rresult
                   ELSE /\ rpc' = "done"
                        /\ rresult' = RReturned(rpc_context(rows))
    /\ UNCHANGED <<store_chunks, renv, document_id, query, top_k>>
    /\ UNCHANGED embedVars
    /\ UNCHANGED <<chunkVars, upsertVars, genVars, parseVars, loopVars>>

\* rag_service.py 124-132: the unranked fallback select
RetrieveFallback ==
    /\ rpc = "fallback"
    /\ queries' = Append(queries, StoreQuery("select", document_id, top_k * 2))
    /\ IF ~renv.select_available
       THEN /\ rresult' = RRaised("APIError", "document_chunks")
            /\ rpc' = "raised"
            /\ data' = data
       ELSE \E rows \in list_chunks(store_chunks, document_id, top_k * 2) :
                /\ data' = rows
                /\ rpc' = "done"
                /\ rresult' = RReturned(fallback_context(rows, top_k))
    /\ UNCHANGED <<store_chunks, renv, document_id, query, top_k>>
    /\ UNCHANGED embedVars
    /\ UNCHANGED <<chunkVars, upsertVars, genVars, parseVars, loopVars>>

RetrieveLocalsInit ==
    /\ data = <<>>
    /\ queries = <<>>
    /\ rresult = RNoResult

\* no retrieve_context call in progress, an empty store
RetrieveIdle ==
    /\ store_chunks = {}
    /\ renv = [supabase_configured |-> TRUE, rpc_available |-> TRUE,
               select_available |-> TRUE]
    /\ document_id = "A"
    /\ query = 1
    /\ top_k = 0
    /\ RetrieveLocalsInit
    /\ rpc = "idle"

StoreSet ==
    {{ChunkRow("A", n) : n \in 0..(a - 1)} \cup {ChunkRow("B", n) : n \in 0..(b - 1)} :
        a \in 0..MaxRows, b \in 0..1}

REnvSet ==
    [supabase_configured : BOOLEAN, rpc_available : BOOLEAN, select_available : BOOLEAN]

RetrieveActions ==
    \/ RetrieveStart
    \/ RetrieveEmbedded
    \/ RetrieveRpc
    \/ RetrieveFallback

(***************************************************************************)
(* upsert_document (rag_service.py 32-88).                                 *)
(***************************************************************************)
UReturned(value) == [kind |-> "ok", value |-> value, exc |-> "", msg |-> ""]

URaised(exc, msg) == [kind |-> "raise", value |-> 0, exc |-> exc, msg |-> msg]

UNoResult == [kind |-> "none", value |-> 0, exc |-> "", msg |-> ""]

UpsertLocalsInit ==
    /\ embeddings = <<>>
    /\ chunk_rows = <<>>
    /\ row = 1
    /\ writes = <<>>
    /\ uresult = UNoResult

\* no upsert_document call in progress
UpsertIdle ==
    /\ store_documents = {}
    /\ uenv = [fail_at |-> 0]
    /\ content = <<>>
    /\ UpsertLocalsInit
    /\ upc = "idle"

\* a row of table document_chunks as upsert_document writes it
StoredRow(d, n, c, emb) ==
    [document_id |-> d, chunk_index |-> n, content |-> c, embedding |-> emb]

\* rag_service.py 73-82: enumerate(zip(chunks, embeddings)) stops at the shorter list
build_rows(d, cs, embs) ==
    [k \in 1..Min(Len(cs), Len(embs)) |-> StoredRow(d, k - 1, cs[k], embs[k])]

\* a delete that removes nothing
delete_chunks_none(t, d) == t

\* table("document_chunks").delete().eq("document_id", d)
delete_chunks(t, d) == t \ RowsOf(t, d)

StoreWrite(op, d, n) == [op |-> op, document_id |-> d, arg |-> n]

\* the store write about to be issued raises
WriteFails == Len(writes) + 1 = uenv.fail_at

\* rag_service.py 44-51: the client is built, chunk_text is called
UpsertStart ==
    /\ upc = "start"
    /\ cpc = "idle"
    /\ IF ~renv.supabase_configured
       THEN /\ uresult' = URaised("ValueError",
                                  "Supabase URL and service key must be configured")
            /\ upc' = "raised"
            /\ UNCHANGED <<text, cpc>>
       ELSE /\ text' = content
            /\ cpc' = "start"
            /\ upc' = "chunking"
            /\ UNCHANGED uresult
    /\ UNCHANGED <<store_documents, uenv, content, embeddings, chunk_rows, row, writes>>
    /\ UNCHANGED <<chunk_size, overlap, sentences, idx, chunks, current_chunk,
                   current_length, seeds>>
    /\ UNCHANGED <<embedVars, retrieveVars, genVars, parseVars, loopVars>>

\* UpsertChunked without the check of line 52: an empty chunk list is handed to
\* generate_embeddings like any other
UpsertChunked_unchecked ==
    /\ upc = "chunking"
    /\ cpc = "done"
    /\ epc = "idle"
    /\ texts' = TextList(Len(chunks))
    /\ epc' = "start"
    /\ upc' = "embedding"
    /\ UNCHANGED uresult
    /\ UNCHANGED <<store_documents, uenv, content, embeddings, chunk_rows, row, writes>>
    /\ UNCHANGED <<settings, env, i, all_embeddings, eresult, attempts, requests>>
    /\ UNCHANGED <<chunkVars, retrieveVars, genVars, parseVars, loopVars>>

\* rag_service.py 52-55: chunk_text has returned; the chunks are handed to
\* generate_embeddings, each named by its position in the list
UpsertChunked ==
    /\ upc = "chunking"
    /\ cpc = "done"
    /\ epc = "idle"
    /\ IF chunks = <<>>
       THEN /\ uresult' = URaised("ValueError", "No chunks generated from content")
            /\ upc' = "raised"
            /\ UNCHANGED <<texts, epc>>
       ELSE /\ texts' = TextList(Len(chunks))
            /\ epc' = "start"
            /\ upc' = "embedding"
            /\ UNCHANGED uresult
    /\ UNCHANGED <<store_documents, uenv, content, embeddings, chunk_rows, row, writes>>
    /\ UNCHANGED <<settings, env, i, all_embeddings, eresult, attempts, requests>>
    /\ UNCHANGED <<chunkVars, retrieveVars, genVars, parseVars, loopVars>>

\* rag_service.py 55: generate_embeddings has returned or raised
UpsertEmbedded ==
    /\ upc = "embedding"
    /\ epc \in {"returned", "raised"}
    /\ IF epc = "raised"
       THEN /\ uresult' = URaised(eresult.exc, eresult.msg)
            /\ upc' = "raised"
            /\ embeddings' = embeddings
       ELSE /\ embeddings' = eresult.vectors
            /\ upc' = "insert_document"
            /\ uresult' = uresult
    /\ epc' = "idle"
    /\ UNCHANGED <<store_documents, uenv, content, chunk_rows, row, writes>>
    /\ UNCHANGED <<settings, env, texts, i, all_embeddings, eresult, attempts, requests>>
    /\ UNCHANGED <<chunkVars, retrieveVars, genVars, parseVars, loopVars>>

\* rag_service.py 58-67
UpsertInsertDocument ==
    /\ upc = "insert_document"
    /\ writes' = Append(writes, StoreWrite("insert_document", document_id, 0))
    /\ IF WriteFails
       THEN /\ uresult' = URaised("APIError", "documents")
            /\ upc' = "raised"
            /\ store_documents' = store_documents
       ELSE /\ store_documents' = store_documents \cup {document_id}
            /\ upc' = "delete"
            /\ uresult' = uresult
    /\ UNCHANGED <<uenv, content, embeddings, chunk_rows, row>>
    /\ UNCHANGED <<chunkVars, embedVars, retrieveVars, genVars, parseVars, loopVars>>

\* rag_service.py 70-82: the chunks of the document are deleted, the new rows built
UpsertDeleteChunks ==
    /\ upc = "delete"
    /\ writes' = Append(writes, StoreWrite("delete_chunks", document_id,
                                           Cardinality(RowsOf(store_chunks, document_id))))
    /\ IF WriteFails
       THEN /\ uresult' = URaised("APIError", "document_chunks")
            /\ upc' = "raised"
            /\ UNCHANGED <<store_chunks, chunk_rows>>
       ELSE /\ store_chunks' = delete_chunks(store_chunks, document_id)
            /\ chunk_rows' = build_rows(document_id, chunks, embeddings)
            /\ upc' = "insert_chunks"
            /\ uresult' = uresult
    /\ row' = 1
    /\ UNCHANGED <<store_documents, uenv, content, embeddings>>
    /\ UNCHANGED <<renv, document_id, query, top_k, data, queries, rpc, rresult>>
    /\ UNCHANGED <<chunkVars, embedVars, genVars, parseVars, loopVars>>

\* rag_service.py 84-85: one iteration of the insert loop
UpsertInsertChunk ==
    /\ upc = "insert_chunks"
    /\ row <= Len(chunk_rows)
    /\ writes' = Append(writes, StoreWrite("insert_chunk", document_id,
                                           chunk_rows[row].chunk_index))
    /\ IF WriteFails
       THEN /\ uresult' = URaised("APIError", "document_chunks")
            /\ upc' = "raised"
            /\ UNCHANGED <<store_chunks, row>>
       ELSE /\ store_chunks' = store_chunks \cup {chunk_rows[row]}
            /\ row' = row + 1
            /\ UNCHANGED <<upc, uresult>>
    /\ UNCHANGED <<store_documents, uenv, content, embeddings, chunk_rows>>
    /\ UNCHANGED <<renv, document_id, query, top_k, data, queries, rpc, rresult>>
    /\ UNCHANGED <<chunkVars, embedVars, genVars, parseVars, loopVars>>

\* rag_service.py 87-88
UpsertReturn ==
    /\ upc = "insert_chunks"
    /\ row > Len(chunk_rows)
    /\ uresult' = UReturned(Len(chunks))
    /\ upc' = "returned"
    /\ UNCHANGED <<store_documents, uenv, content, embeddings, chunk_rows, row, writes>>
    /\ UNCHANGED <<chunkVars, embedVars, retrieveVars, genVars, parseVars, loopVars>>

UpsertActions ==
    \/ UpsertStart
    \/ UpsertChunked
    \/ UpsertEmbedded
    \/ UpsertInsertDocument
    \/ UpsertDeleteChunks
    \/ UpsertInsertChunk
    \/ UpsertReturn

(***************************************************************************)
(* The generation provider chain (ai_service.py 237-341).                  *)
(***************************************************************************)
GReturned(items) == [kind |-> "ok", items |-> items, exc |-> "", msg |-> ""]

GRaised(exc, msg) == [kind |-> "raise", items |-> <<>>, exc |-> exc, msg |-> msg]

GNoResult == [kind |-> "none", items |-> <<>>, exc |-> "", msg |-> ""]

GenLocalsInit ==
    /\ ginv = 0
    /\ tries = 0
    /\ gcalls = <<>>
    /\ gresult = GNoResult
    /\ buffer = <<>>
    /\ gthread = "idle"
    /\ gerror = ""
    /\ yielded = <<>>
    /\ sse = <<>>

\* no response being parsed
ParseIdle ==
    /\ response_text = <<>>
    /\ raw = <<>>
    /\ json_text = <<>>
    /\ parsed_items = <<>>
    /\ quiz_items = <<>>
    /\ kept_idx = <<>>
    /\ http = [status |-> "", detail |-> ""]
    /\ ppc = "idle"

\* no request on the event loop
LoopIdle ==
    /\ loop_owner = 0
    /\ reqs = <<>>
    /\ inflight = {}

\* no generation call in progress
GenIdle ==
    /\ task = "flashcards"
    /\ messages = <<"user">>
    /\ GenLocalsInit
    /\ connected = TRUE
    /\ gpc = "idle"

\* the settings the chain reads: ai_provider already stripped and lower-cased
GenSettingsSet ==
    [ai_provider : {"auto", "openai", "gemini"},
     openai_api_key : BOOLEAN,
     gemini_api_key : BOOLEAN,
     embedding_fallback_to_local : {TRUE},
     embedding_dimensions : {1},
     max_retrieval_chunks : {MaxTopK}]

Structured == {"flashcards", "quiz"}

\* the chain is inside a provider function
Running == {"gemini_first", "openai", "gemini_fallback", "gemini_last"}

ProviderAt(pos) == IF pos = "openai" THEN "openai" ELSE "gemini"

\* a use_gemini_first that prefers the free-tier provider in automatic mode
\* whatever credential the paid provider has
use_gemini_first_always(cfg) == cfg.ai_provider \in {"gemini", "auto"}

\* ai_service.py 240, 271, 307
use_gemini_first(cfg) ==
    cfg.ai_provider = "gemini" \/ (cfg.ai_provider = "auto" /\ ~cfg.openai_api_key)

\* ai_service.py 262-266: the last block, which never tests for a provider
\* being configured
last_position_unchecked(cfg) == "gemini_last"

\* ai_service.py 262-266, 294-298, 337-341: the last block
last_position(cfg) == IF cfg.gemini_api_key THEN "gemini_last" ELSE "none"

\* ai_service.py 251, 283, 320: the block after the free-tier-first block
second_position(cfg) == IF cfg.openai_api_key THEN "openai" ELSE last_position(cfg)

\* ai_service.py 242, 273, 309: the block the chain enters first
first_position(cfg) ==
    IF use_gemini_first(cfg) /\ cfg.gemini_api_key THEN "gemini_first"
    ELSE second_position(cfg)

\* _raise_if_quota_error (21-24): "429", "insufficient_quota", "quota" or
\* "billing" in the message of the exception
is_quota_error(kind) == kind = "rate_limit"

NoProviderError == GRaised("ValueError", "No AI provider configured")

QuotaError == GRaised("ValueError", "QUOTA_EXCEEDED_MESSAGE")

\* the ValueError the chain wraps a provider failure in
WrappedError(t, pos) ==
    GRaised("ValueError",
            IF t = "chat" THEN "Chat failed"
            ELSE IF pos = "gemini_first" THEN "Gemini failed"
            ELSE "AI generation failed")

\* the exception of a provider, as the provider raised it
ProviderError(kind) == GRaised("ProviderError", kind)

\* the except clauses of the chain: where a failure of kind in block pos leads.
\* to: the block entered next, or "raise" with the exception that leaves the chain
on_failure(t, pos, cfg, kind) ==
    IF pos = "gemini_first"
    THEN IF cfg.ai_provider = "gemini"
         THEN [to |-> "raise", error |-> WrappedError(t, pos)]
         ELSE [to |-> second_position(cfg), error |-> NoProviderError]
    ELSE IF pos = "openai"
    THEN IF cfg.gemini_api_key
         THEN [to |-> "gemini_fallback", error |-> GNoResult]
         ELSE IF is_quota_error(kind)
         THEN [to |-> "raise", error |-> QuotaError]
         ELSE [to |-> "raise", error |-> WrappedError(t, pos)]
    ELSE [to |-> "raise", error |-> ProviderError(kind)]

\* the truncation marker
Marker == <<".", ".", ".">>

\* content passed on whole, with no slice and no marker
truncated_uncut(c) == c

\* ai_service.py 105-106, 121-122, 175-176, 193-194:
\* content[:max_chars] + ("..." if len(content) > max_chars else "")
truncated(c) == Take(c, max_chars) \o (IF Len(c) > max_chars THEN Marker ELSE <<>>)

\* one call of a provider's API, or one stream opened; source is the part of
\* the user message of a flashcards or quiz request that comes from content
\* (110, 126, 181, 198)
ApiCall(p, outcome, error) ==
    [provider |-> p, inv |-> ginv, outcome |-> outcome, error |-> error, fragments |-> 0,
     source |-> IF task \in Structured THEN truncated(content) ELSE <<>>]

\* the items _parse_json_array finds in a response
Items(p, n) == [k \in 1..n |-> [by |-> p, item |-> k]]

\* _generate_quiz_gemini (139-142) runs _run_once a second time when the first
\* yields no item; the other three provider functions make one call
retries_on_empty(t, p) == t = "quiz" /\ p = "gemini"

\* the chain moves to block pos, or raises when there is none
Enter(pos) ==
    IF pos = "none"
    THEN /\ gpc' = "raised"
         /\ gresult' = NoProviderError
         /\ UNCHANGED <<ginv, tries>>
    ELSE /\ gpc' = pos
         /\ ginv' = ginv + 1
         /\ tries' = 0
         /\ UNCHANGED gresult

\* generate_flashcards 237-242, generate_quiz 269-273
GenStart ==
    /\ gpc = "start"
    /\ task \in Structured
    /\ messages = <<"user">>
    /\ Enter(first_position(settings))
    /\ UNCHANGED <<task, messages, gcalls, buffer, gthread, gerror, yielded, connected,
                   sse>>
    /\ UNCHANGED <<chunkVars, embedVars, retrieveVars, upsertVars, parseVars, loopVars>>

\* a provider function's API call answers and the function returns what
\* _parse_json_array found (103-116, 171-186, 189-209, 119-143)
GenCallReturns ==
    /\ gpc \in Running
    /\ task \in Structured
    /\ messages = <<"user">>
    /\ \E n \in 0..MaxItems :
          /\ ~(n = 0 /\ retries_on_empty(task, ProviderAt(gpc)) /\ tries = 0)
          /\ gcalls' = Append(gcalls, ApiCall(ProviderAt(gpc),
                                              IF n = 0 THEN "no_items" ELSE "items", ""))
          /\ gresult' = GReturned(Items(ProviderAt(gpc), n))
    /\ tries' = tries + 1
    /\ gpc' = "returned"
    /\ UNCHANGED <<task, messages, ginv, buffer, gthread, gerror, yielded, connected,
                   sse>>
    /\ UNCHANGED <<chunkVars, embedVars, retrieveVars, upsertVars, parseVars, loopVars>>

\* _generate_quiz_gemini 139-142: no item in the first response, _run_once again
GenCallRetries ==
    /\ gpc \in Running
    /\ task \in Structured
    /\ messages = <<"user">>
    /\ retries_on_empty(task, ProviderAt(gpc))
    /\ tries = 0
    /\ gcalls' = Append(gcalls, ApiCall(ProviderAt(gpc), "no_items", ""))
    /\ tries' = 1
    /\ UNCHANGED <<task, messages, gpc, ginv, gresult, buffer, gthread, gerror, yielded,
                   connected, sse>>
    /\ UNCHANGED <<chunkVars, embedVars, retrieveVars, upsertVars, parseVars, loopVars>>

\* a provider function's API call raises: the except clauses of 245-250,
\* 254-260 (277-281, 286-292), or no handler in the last block
GenCallFails ==
    /\ gpc \in Running
    /\ task \in Structured
    /\ messages = <<"user">>
    /\ \E kind \in ErrorKinds :
          LET h == on_failure(task, gpc, settings, kind)
          IN  /\ gcalls' = Append(gcalls, ApiCall(ProviderAt(gpc), "error", kind))
              /\ IF h.to = "raise"
                 THEN /\ gpc' = "raised"
                      /\ gresult' = h.error
                      /\ tries' = tries + 1
                      /\ UNCHANGED ginv
                 ELSE Enter(h.to)
    /\ UNCHANGED <<task, messages, buffer, gthread, gerror, yielded, connected, sse>>
    /\ UNCHANGED <<chunkVars, embedVars, retrieveVars, upsertVars, parseVars, loopVars>>

(***************************************************************************)
(* chat_completion_stream (ai_service.py 301-341) with its two provider    *)
(* streams, read by _stream_generator (chat.py 54-60).                     *)
(***************************************************************************)
\* fragment number n of the stream opened by provider function call inv
Fragment(p, inv, n) == [by |-> p, inv |-> inv, n |-> n, text |-> ""]

\* chat.py 58-60: the terminal fragment "[ERROR]Chat failed: ..."
ErrorFragment(error) == [by |-> "[ERROR]", inv |-> 0, n |-> 0, text |-> error.msg]

\* the last call, with one more fragment emitted by the provider
OneMore(calls) == [calls EXCEPT ![Len(calls)].fragments = @ + 1]

\* the last call, ended
Ended(calls, outcome, error) ==
    [calls EXCEPT ![Len(calls)] = [@ EXCEPT !.outcome = outcome, !.error = error]]

\* the generator moves to block pos and opens the provider's stream there:
\* _chat_stream_openai awaits create(stream=True) (223-229), _chat_stream_gemini
\* hands _gemini_stream_sync to the executor (161-164); with no block left the
\* ValueError of 339-341 reaches _stream_generator
ChatEnter(pos, calls) ==
    IF pos = "none"
    THEN /\ gpc' = "raised"
         /\ gresult' = NoProviderError
         /\ sse' = Append(sse, ErrorFragment(NoProviderError))
         /\ gcalls' = calls
         /\ UNCHANGED <<ginv, gthread>>
    ELSE /\ gpc' = pos
         /\ ginv' = ginv + 1
         /\ gcalls' = Append(calls, [ApiCall(ProviderAt(pos), "running", "")
                                        EXCEPT !.inv = ginv + 1])
         /\ gthread' = IF ProviderAt(pos) = "gemini" THEN "running" ELSE gthread
         /\ UNCHANGED <<gresult, sse>>

\* what an exception of kind in block gpc does to the generator
ChatHandle(kind, calls) ==
    LET h == on_failure("chat", gpc, settings, kind)
    IN  IF h.to = "raise"
        THEN /\ gpc' = "raised"
             /\ gresult' = h.error
             /\ sse' = Append(sse, ErrorFragment(h.error))
             /\ gcalls' = calls
             /\ UNCHANGED ginv
        ELSE /\ ChatEnter(h.to, calls)
             /\ h.to = "none" => UNCHANGED gthread

\* chat.py 56, ai_service.py 305-309: the first read starts the generator
ChatStart ==
    /\ gpc = "start"
    /\ task = "chat"
    /\ connected
    /\ ChatEnter(first_position(settings), gcalls)
    /\ UNCHANGED <<task, messages, tries, buffer, gerror, yielded, connected>>
    /\ UNCHANGED <<chunkVars, embedVars, retrieveVars, upsertVars, parseVars, loopVars>>

\* _chat_stream_openai 230-232, chat_completion_stream 322-323, chat.py 56-57:
\* the consumer reads, the provider emits a fragment, it is passed on
ChatOpenAIFragment ==
    /\ gpc = "openai"
    /\ task = "chat"
    /\ connected
    /\ gcalls[Len(gcalls)].fragments < MaxFragments
    /\ LET f == Fragment("openai", ginv, gcalls[Len(gcalls)].fragments + 1)
       IN  /\ yielded' = Append(yielded, f)
           /\ sse' = Append(sse, f)
    /\ gcalls' = OneMore(gcalls)
    /\ UNCHANGED <<task, messages, gpc, ginv, tries, gresult, buffer, gthread, gerror,
                   connected>>
    /\ UNCHANGED <<chunkVars, embedVars, retrieveVars, upsertVars, parseVars, loopVars>>

\* ai_service.py 324: the provider's stream ends
ChatOpenAIEnd ==
    /\ gpc = "openai"
    /\ task = "chat"
    /\ connected
    /\ gcalls' = Ended(gcalls, "ok", "")
    /\ gpc' = "returned"
    /\ UNCHANGED <<task, messages, ginv, tries, gresult, buffer, gthread, gerror, yielded,
                   connected, sse>>
    /\ UNCHANGED <<chunkVars, embedVars, retrieveVars, upsertVars, parseVars, loopVars>>

\* ai_service.py 325-333: the provider's stream raises, at its opening or later
ChatOpenAIFails ==
    /\ gpc = "openai"
    /\ task = "chat"
    /\ connected
    /\ \E kind \in ErrorKinds :
          /\ ChatHandle(kind, Ended(gcalls, "error", kind))
          /\ on_failure("chat", gpc, settings, kind).to = "raise" => UNCHANGED gthread
    /\ UNCHANGED <<task, messages, tries, buffer, gerror, yielded, connected>>
    /\ UNCHANGED <<chunkVars, embedVars, retrieveVars, upsertVars, parseVars, loopVars>>

\* _gemini_stream_sync 96-99, in the executor thread: the next fragment of the
\* provider's stream is fetched and appended to the list
GeminiStreamFragment ==
    /\ gthread = "running"
    /\ gcalls[Len(gcalls)].fragments < MaxFragments
    /\ buffer' = Append(buffer, Fragment("gemini", gcalls[Len(gcalls)].inv,
                                         gcalls[Len(gcalls)].fragments + 1))
    /\ gcalls' = OneMore(gcalls)
    /\ UNCHANGED <<task, messages, gpc, ginv, tries, gresult, gthread, gerror, yielded,
                   connected, sse>>
    /\ UNCHANGED <<chunkVars, embedVars, retrieveVars, upsertVars, parseVars, loopVars>>

\* _gemini_stream_sync 100: the provider's stream is exhausted, the list returned
GeminiStreamEnd ==
    /\ gthread = "running"
    /\ gthread' = "done"
    /\ gcalls' = Ended(gcalls, "ok", "")
    /\ UNCHANGED <<task, messages, gpc, ginv, tries, gresult, buffer, gerror, yielded,
                   connected, sse>>
    /\ UNCHANGED <<chunkVars, embedVars, retrieveVars, upsertVars, parseVars, loopVars>>

\* _gemini_stream_sync 89-99: configure, GenerativeModel or the stream raises
GeminiStreamFails ==
    /\ gthread = "running"
    /\ \E kind \in ErrorKinds :
          /\ gerror' = kind
          /\ gcalls' = Ended(gcalls, "error", kind)
    /\ gthread' = "failed"
    /\ UNCHANGED <<task, messages, gpc, ginv, tries, gresult, buffer, yielded,
                   connected, sse>>
    /\ UNCHANGED <<chunkVars, embedVars, retrieveVars, upsertVars, parseVars, loopVars>>

\* _chat_stream_gemini 165-166: the list is there, its next element is yielded
ChatGeminiYield ==
    /\ gpc \in Running
    /\ ProviderAt(gpc) = "gemini"
    /\ task = "chat"
    /\ connected
    /\ gthread = "done"
    /\ buffer # <<>>
    /\ yielded' = Append(yielded, Head(buffer))
    /\ sse' = Append(sse, Head(buffer))
    /\ buffer' = Tail(buffer)
    /\ UNCHANGED <<task, messages, gpc, ginv, tries, gcalls, gresult, gthread, gerror,
                   connected>>
    /\ UNCHANGED <<chunkVars, embedVars, retrieveVars, upsertVars, parseVars, loopVars>>

\* _chat_stream_gemini 165-166: the list is exhausted (312, 331, 338: return)
ChatGeminiEnd ==
    /\ gpc \in Running
    /\ ProviderAt(gpc) = "gemini"
    /\ task = "chat"
    /\ connected
    /\ gthread = "done"
    /\ buffer = <<>>
    /\ gpc' = "returned"
    /\ gthread' = "idle"
    /\ UNCHANGED <<task, messages, ginv, tries, gcalls, gresult, buffer, gerror,
                   yielded, connected, sse>>
    /\ UNCHANGED <<chunkVars, embedVars, retrieveVars, upsertVars, parseVars, loopVars>>

\* _chat_stream_gemini 161-164: the await of the executor raises what the thread
\* raised; the list of the thread is lost
ChatGeminiFails ==
    /\ gpc \in Running
    /\ ProviderAt(gpc) = "gemini"
    /\ task = "chat"
    /\ connected
    /\ gthread = "failed"
    /\ ChatHandle(gerror, gcalls)
    /\ on_failure("chat", gpc, settings, gerror).to = "raise" => gthread' = "idle"
    /\ buffer' = <<>>
    /\ UNCHANGED <<task, messages, tries, gerror, yielded, connected>>
    /\ UNCHANGED <<chunkVars, embedVars, retrieveVars, upsertVars, parseVars, loopVars>>

\* the client goes away: the response task is cancelled and the generators are
\* closed; a thread of the executor is not stopped by that
Disconnect ==
    /\ task = "chat"
    /\ connected
    /\ gpc \in Running \cup {"start"}
    /\ connected' = FALSE
    /\ gpc' = "cancelled"
    /\ buffer' = IF gthread = "running" THEN buffer ELSE <<>>
    /\ UNCHANGED <<task, messages, ginv, tries, gcalls, gresult, gthread, gerror,
                   yielded, sse>>
    /\ UNCHANGED <<chunkVars, embedVars, retrieveVars, upsertVars, parseVars, loopVars>>

GenActions ==
    \/ GenStart
    \/ GenCallReturns
    \/ GenCallRetries
    \/ GenCallFails
    \/ ChatStart
    \/ ChatOpenAIFragment
    \/ ChatOpenAIEnd
    \/ ChatOpenAIFails
    \/ GeminiStreamFragment
    \/ GeminiStreamEnd
    \/ GeminiStreamFails
    \/ ChatGeminiYield
    \/ ChatGeminiEnd
    \/ ChatGeminiFails
    \/ Disconnect

(***************************************************************************)
(* chunk_text (chunking.py 18-59).                                         *)
(***************************************************************************)
\* overlap_text_from without the "else: break": a sentence that does not fit is
\* skipped and older sentences are still collected
RECURSIVE overlap_text_from_nobreak(_, _, _, _)
overlap_text_from_nobreak(cc, k, acc, ov) ==
    IF k = 0 THEN acc
    ELSE IF Len(acc) + Len(cc[k]) + 1 <= ov
         THEN overlap_text_from_nobreak(cc, k - 1,
                                IF acc # <<>> THEN cc[k] \o <<" ">> \o acc ELSE cc[k],
                                ov)
         ELSE overlap_text_from_nobreak(cc, k - 1, acc, ov)

\* chunking.py 45-50: walk back through the closed chunk, keeping the last
\* elements while the accumulated text stays within overlap
RECURSIVE overlap_text_from(_, _, _, _)
overlap_text_from(cc, k, acc, ov) ==
    IF k = 0 THEN acc
    ELSE IF Len(acc) + Len(cc[k]) + 1 <= ov
         THEN overlap_text_from(cc, k - 1,
                                IF acc # <<>> THEN cc[k] \o <<" ">> \o acc ELSE cc[k],
                                ov)
         ELSE acc

\* a chunker that carries nothing over from a closed chunk
overlap_text_of_none(cc, ov) == <<>>

\* a chunker that carries the last element of a closed chunk over whatever
\* its length
overlap_text_of_last(cc, ov) == cc[Len(cc)]

overlap_text_of(cc, ov) == overlap_text_from(cc, Len(cc), <<>>, ov)

\* LoopBody that loses the sentence whose arrival closes a chunk
LoopBody_drop(st, sentence, size, ov) ==
    LET sentence_len == Len(sentence) + 1
        closes == st.current_length + sentence_len > size /\ st.current_chunk # <<>>
        seed == overlap_text_of(st.current_chunk, ov)
    IN  IF closes
        THEN [chunks |-> Append(st.chunks, Join(st.current_chunk, <<" ">>)),
              seeds |-> Append(st.seeds, seed),
              current_chunk |-> IF seed # <<>> THEN <<Strip(seed)>> ELSE <<>>,
              current_length |-> Len(seed)]
        ELSE [chunks |-> st.chunks,
              seeds |-> st.seeds,
              current_chunk |-> Append(st.current_chunk, sentence),
              current_length |-> st.current_length + sentence_len]

\* chunking.py 39-54: one iteration of the loop over the sentences
LoopBody(st, sentence, size, ov) ==
    LET sentence_len == Len(sentence) + 1
        closes == st.current_length + sentence_len > size /\ st.current_chunk # <<>>
        seed == overlap_text_of(st.current_chunk, ov)
        base == IF closes
                THEN [chunks |-> Append(st.chunks, Join(st.current_chunk, <<" ">>)),
                      seeds |-> Append(st.seeds, seed),
                      current_chunk |-> IF seed # <<>> THEN <<Strip(seed)>> ELSE <<>>,
                      current_length |-> Len(seed)]
                ELSE st
    IN  [chunks |-> base.chunks,
         seeds |-> base.seeds,
         current_chunk |-> Append(base.current_chunk, sentence),
         current_length |-> base.current_length + sentence_len]

ChunkInputs ==
    /\ text \in SeqsUpTo(Alphabet, MaxTextLen)
    /\ chunk_size \in 2..MaxChunkSize
    /\ overlap \in 0..Min(MaxOverlap, chunk_size - 1)

ChunkLocalsInit ==
    /\ sentences = <<>>
    /\ idx = 1
    /\ chunks = <<>>
    /\ current_chunk = <<>>
    /\ current_length = 0
    /\ seeds = <<>>

\* chunking.py 27-37
ChunkStart ==
    /\ cpc = "start"
    /\ LET cleaned == clean_text(text)
       IN  IF cleaned = <<>>
           THEN /\ cpc' = "done"
                /\ sentences' = <<>>
           ELSE /\ cpc' = "loop"
                /\ sentences' = split_sentences(cleaned)
    /\ idx' = 1
    /\ chunks' = <<>>
    /\ current_chunk' = <<>>
    /\ current_length' = 0
    /\ seeds' = <<>>
    /\ UNCHANGED <<text, chunk_size, overlap>>
    /\ UNCHANGED <<embedVars, retrieveVars, upsertVars, genVars, parseVars, loopVars>>

\* chunking.py 39-54
ChunkStep ==
    /\ cpc = "loop"
    /\ idx <= Len(sentences)
    /\ LET st == LoopBody([chunks |-> chunks, seeds |-> seeds,
                           current_chunk |-> current_chunk,
                           current_length |-> current_length],
                          sentences[idx], chunk_size, overlap)
       IN  /\ chunks' = st.chunks
           /\ seeds' = st.seeds
           /\ current_chunk' = st.current_chunk
           /\ current_length' = st.current_length
    /\ idx' = idx + 1
    /\ UNCHANGED <<text, chunk_size, overlap, sentences, cpc>>
    /\ UNCHANGED <<embedVars, retrieveVars, upsertVars, genVars, parseVars, loopVars>>

\* chunking.py 56-59
ChunkReturn ==
    /\ cpc = "loop"
    /\ idx > Len(sentences)
    /\ chunks' = IF current_chunk # <<>>
                 THEN Append(chunks, Join(current_chunk, <<" ">>))
                 ELSE chunks
    /\ cpc' = "done"
    /\ UNCHANGED <<text, chunk_size, overlap, sentences, idx, current_chunk,
                   current_length, seeds>>
    /\ UNCHANGED <<embedVars, retrieveVars, upsertVars, genVars, parseVars, loopVars>>

ChunkInit ==
    /\ ChunkInputs
    /\ ChunkLocalsInit
    /\ cpc = "start"
    /\ EmbedIdle
    /\ RetrieveIdle
    /\ UpsertIdle
    /\ GenIdle
    /\ ParseIdle
    /\ LoopIdle

ChunkNext == ChunkStart \/ ChunkStep \/ ChunkReturn

ChunkSpec == ChunkInit /\ [][ChunkNext]_vars


(***************************************************************************)
(* generate_embeddings called on its own.                                  *)
(***************************************************************************)
ChunkIdle ==
    /\ text = <<>>
    /\ chunk_size = 2
    /\ overlap = 0
    /\ ChunkLocalsInit
    /\ cpc = "idle"

EmbedInit ==
    /\ settings \in SettingsSet
    /\ env \in EnvSet
    /\ texts \in {TextList(n) : n \in TextCounts}
    /\ EmbedLocalsInit
    /\ epc = "start"
    /\ ChunkIdle
    /\ RetrieveIdle
    /\ UpsertIdle
    /\ GenIdle
    /\ ParseIdle
    /\ LoopIdle

EmbedNext == EmbedActions

EmbedSpec == EmbedInit /\ [][EmbedNext]_vars

(***************************************************************************)
(* retrieve_context called by the chat route (chat.py 47), with the        *)
(* generate_embeddings call it makes.  Every provider emits vectors of the *)
(* same length here.                                                       *)
(***************************************************************************)
RetrieveInit ==
    /\ settings \in SettingsSet
    /\ env \in {e \in EnvSet : \A p \in Providers : e.native[p] = e.native["openai"]}
    /\ texts = <<>>
    /\ EmbedLocalsInit
    /\ epc = "idle"
    /\ store_chunks \in StoreSet
    /\ renv \in REnvSet
    /\ document_id \in Documents
    /\ query = 1
    /\ top_k \in 0..MaxTopK
    /\ RetrieveLocalsInit
    /\ rpc = "start"
    /\ ChunkIdle
    /\ UpsertIdle
    /\ GenIdle
    /\ ParseIdle
    /\ LoopIdle

RetrieveNext == RetrieveActions \/ EmbedActions

RetrieveSpec == RetrieveInit /\ [][RetrieveNext]_vars

(***************************************************************************)
(* upsert_document called by an ingestion route (pdf.py 66, youtube.py),   *)
(* with the chunk_text and generate_embeddings calls it makes.             *)
(* chunk_size and overlap hold settings.max_chunk_size and                 *)
(* settings.chunk_overlap.                                                 *)
(***************************************************************************)
\* the sentence number k: k letters and a full stop
Sentence(k) == [j \in 1..k |-> "a"] \o <<".">>

\* a content of n sentences, all different
Doc(n) == IF n = 0 THEN <<>> ELSE Join([k \in 1..n |-> Sentence(k)], <<" ">>)

UpsertContents == {Doc(n) : n \in 0..MaxDocSentences} \cup {<<" ">>}

\* the rows an earlier upsert left in the store
OldRow(d, n) == StoredRow(d, n, ContentOf(d, n), ProviderVector("openai", n + 1, 1))

UpsertStoreSet ==
    {{OldRow("A", n) : n \in 0..(a - 1)} \cup {OldRow("B", 0)} : a \in {0, MaxRows}}

\* an upsert_document call about to start, the environment one of envs
UpsertInitIn(envs) ==
    /\ settings \in SettingsSet
    /\ env \in envs
    /\ texts = <<>>
    /\ EmbedLocalsInit
    /\ epc = "idle"
    /\ text = <<>>
    /\ chunk_size = MaxChunkSize
    /\ overlap \in {0, MaxOverlap}
    /\ ChunkLocalsInit
    /\ cpc = "idle"
    /\ store_chunks \in UpsertStoreSet
    /\ renv \in {e \in REnvSet : e.rpc_available /\ e.select_available}
    /\ document_id \in Documents
    /\ query = 1
    /\ top_k = 0
    /\ RetrieveLocalsInit
    /\ rpc = "idle"
    /\ store_documents = {}
    /\ uenv \in [fail_at : 0..MaxFailAt]
    /\ content \in UpsertContents
    /\ UpsertLocalsInit
    /\ upc = "start"
    /\ GenIdle
    /\ ParseIdle
    /\ LoopIdle

UpsertInit ==
    UpsertInitIn({e \in EnvSet : /\ \A p \in Providers : e.native[p] = e.native["openai"]
                                /\ e.gemini_up})

UpsertNext == UpsertActions \/ ChunkNext \/ EmbedActions

UpsertSpec == UpsertInit /\ [][UpsertNext]_vars

(***************************************************************************)
(* upsert_document with hosted providers whose responses may hold one      *)
(* vector fewer or one more than the batch they were sent.                 *)
(***************************************************************************)
OffsetEnvSet ==
    [native : {[p \in Providers |-> 1]},
     gemini_up : {TRUE},
     local : {"ok", "error"},
     off : {-1, 0, 1}]

OffsetInit == UpsertInitIn(OffsetEnvSet)

OffsetSpec == OffsetInit /\ [][UpsertNext]_vars

(***************************************************************************)
(* generate_flashcards, generate_quiz (called by the flashcards and quiz   *)
(* routes) and chat_completion_stream (read by the chat route).            *)
(***************************************************************************)
\* a content of n characters
ContentOfLen(n) == [k \in 1..n |-> IF k % 3 = 0 THEN "." ELSE IF k % 3 = 1 THEN "a" ELSE " "]

\* the lengths tried: empty, short, and around max_chars
ContentLens == {0, 1, max_chars - 1, max_chars, max_chars + 1, max_chars + MaxExtra}

GenContents == {ContentOfLen(n) : n \in ContentLens}

GenInit ==
    /\ settings \in GenSettingsSet
    /\ env = [native |-> [p \in Providers |-> 1], gemini_up |-> TRUE, local |-> "ok",
              off |-> 0]
    /\ texts = <<>>
    /\ EmbedLocalsInit
    /\ epc = "idle"
    /\ ChunkIdle
    /\ RetrieveIdle
    /\ store_documents = {}
    /\ uenv = [fail_at |-> 0]
    /\ UpsertLocalsInit
    /\ upc = "idle"
    /\ task \in {"flashcards", "quiz", "chat"}
    /\ messages = <<"user">>
    /\ content \in IF task \in Structured THEN GenContents ELSE {<<>>}
    /\ GenLocalsInit
    /\ connected = TRUE
    /\ gpc = "start"
    /\ ParseIdle
    /\ LoopIdle

GenNext == GenActions

GenSpec == GenInit /\ [][GenNext]_vars

(***************************************************************************)
(* The chat route (chat.py 36-60): _stream_generator checks the messages,  *)
(* awaits retrieve_context and passes on what chat_completion_stream       *)
(* yields.  gpc "validate" and "retrieving" are its positions before the   *)
(* stream is opened, "aborted" is an exception that left the generator.    *)
(***************************************************************************)
\* the messages of a request by role: none, or one whose role is given
MessagesSet == {<<>>, <<"assistant">>, <<"user">>}

\* a fragment "[ERROR]..." sent by the route
RouteErrorFragment(msg) == [by |-> "[ERROR]", inv |-> 0, n |-> 0, text |-> msg]

\* chat.py 38-44, and 47 up to the call of retrieve_context
StreamValidate ==
    /\ gpc = "validate"
    /\ task = "chat"
    /\ rpc = "idle"
    /\ IF messages = <<>>
       THEN /\ sse' = Append(sse, RouteErrorFragment("No messages provided"))
            /\ gpc' = "returned"
            /\ rpc' = rpc
       ELSE IF messages[Len(messages)] # "user"
       THEN /\ sse' = Append(sse, RouteErrorFragment("Last message must be from user"))
            /\ gpc' = "returned"
            /\ rpc' = rpc
       ELSE /\ rpc' = "start"
            /\ gpc' = "retrieving"
            /\ sse' = sse
    /\ UNCHANGED <<task, messages, ginv, tries, gcalls, gresult, buffer, gthread, gerror,
                   yielded, connected>>
    /\ UNCHANGED <<store_chunks, renv, document_id, query, top_k, data, queries, rresult>>
    /\ UNCHANGED <<chunkVars, embedVars, upsertVars, parseVars, loopVars>>

\* chat.py 46-52: retrieve_context has returned or raised.  Only a ValueError
\* is caught; any other exception leaves the generator
StreamContext ==
    /\ gpc = "retrieving"
    /\ task = "chat"
    /\ rpc \in {"done", "raised"}
    /\ IF rpc = "done"
       THEN /\ gpc' = "start"
            /\ UNCHANGED <<gresult, sse>>
       ELSE IF rresult.exc = "ValueError"
       THEN /\ sse' = Append(sse, RouteErrorFragment(rresult.msg))
            /\ gpc' = "returned"
            /\ gresult' = gresult
       ELSE /\ gpc' = "aborted"
            /\ gresult' = GRaised(rresult.exc, rresult.msg)
            /\ sse' = sse
    /\ UNCHANGED <<task, messages, ginv, tries, gcalls, buffer, gthread, gerror, yielded,
                   connected>>
    /\ UNCHANGED <<chunkVars, embedVars, retrieveVars, upsertVars, parseVars, loopVars>>

RouteActions ==
    \/ StreamValidate
    \/ StreamContext

ChatSettingsSet ==
    [ai_provider : {"auto", "openai", "gemini"},
     openai_api_key : BOOLEAN,
     gemini_api_key : BOOLEAN,
     embedding_fallback_to_local : BOOLEAN,
     embedding_dimensions : {1},
     max_retrieval_chunks : {MaxTopK}]

ChatInit ==
    /\ settings \in ChatSettingsSet
    /\ env \in {e \in EnvSet : \A p \in Providers : e.native[p] = 1}
    /\ texts = <<>>
    /\ EmbedLocalsInit
    /\ epc = "idle"
    /\ store_chunks \in {{ChunkRow("A", n) : n \in 0..(a - 1)} : a \in 0..1}
    /\ renv \in REnvSet
    /\ document_id = "A"
    /\ query = 1
    /\ top_k = 0
    /\ RetrieveLocalsInit
    /\ rpc = "idle"
    /\ ChunkIdle
    /\ UpsertIdle
    /\ task = "chat"
    /\ messages \in MessagesSet
    /\ GenLocalsInit
    /\ connected = TRUE
    /\ gpc = "validate"
    /\ ParseIdle
    /\ LoopIdle

\* chat_completion_stream and the provider streams behind it
ChatActions ==
    \/ ChatStart
    \/ ChatOpenAIFragment
    \/ ChatOpenAIEnd
    \/ ChatOpenAIFails
    \/ GeminiStreamFragment
    \/ GeminiStreamEnd
    \/ GeminiStreamFails
    \/ ChatGeminiYield
    \/ ChatGeminiEnd
    \/ ChatGeminiFails
    \/ Disconnect

ChatNext == RouteActions \/ RetrieveActions \/ EmbedActions \/ ChatActions

ChatSpec == ChatInit /\ [][ChatNext]_vars

(***************************************************************************)
(* The ingestion scenario: chunk_text on a document about four times as    *)
(* long as chunk_size (config.py 37-38: 512 and 50; here ScenarioChunkSize *)
(* and ScenarioOverlap).                                                   *)
(***************************************************************************)
\* the sentences the scenario's documents are made of: two that fit in the
\* overlap with the space that joins them, one that does not
ScenarioSentences ==
    {Sentence(ScenarioOverlap - 3), Sentence(ScenarioOverlap - 2), Sentence(ScenarioOverlap)}

\* the documents of exactly n characters made of these sentences, joined by
\* one space
RECURSIVE DocsOfLen(_)
DocsOfLen(n) ==
    IF n <= 0 THEN {}
    ELSE {st \in ScenarioSentences : Len(st) = n}
         \cup UNION {{st \o <<" ">> \o rest : rest \in DocsOfLen(n - Len(st) - 1)} :
                        st \in ScenarioSentences}

\* a document without any sentence boundary
Unbroken(n) == [k \in 1..n |-> "a"]

ScenarioDocs ==
    DocsOfLen(4 * ScenarioChunkSize) \cup DocsOfLen(4 * ScenarioChunkSize - 1)
    \cup {Unbroken(4 * ScenarioChunkSize)}

ScenarioInit ==
    /\ text \in ScenarioDocs
    /\ chunk_size = ScenarioChunkSize
    /\ overlap = ScenarioOverlap
    /\ ChunkLocalsInit
    /\ cpc = "start"
    /\ EmbedIdle
    /\ RetrieveIdle
    /\ UpsertIdle
    /\ GenIdle
    /\ ParseIdle
    /\ LoopIdle

ScenarioSpec == ScenarioInit /\ [][ChunkNext]_vars

(***************************************************************************)
(* Concurrent requests on the event loop of the process (rag_service.py    *)
(* 32-88, 91-135).  upsert_document and retrieve_context are coroutines:   *)
(* the loop's thread runs one of them until it awaits something that is    *)
(* not finished.  generate_embeddings is awaited (55, 105); the store      *)
(* queries are calls of the synchronous client (create_client, 22) ended   *)
(* by .execute() without await (67, 70, 85, 118, 129).                     *)
(***************************************************************************)
RequestIds == 1..MaxRequests

\* where a request is in its coroutine; the store queries are the
\* positions of StorePoints
StorePoints == {"insert_document", "delete_chunks", "insert_chunk", "rpc", "select"}

\* a request: op "upsert" | "retrieve"; pc the statement it is at; status
\* "ready" (on the loop's queue), "running" (the loop's thread runs it),
\* "awaiting" (suspended at an await), "in_call" (inside a synchronous call),
\* "done"; left the chunk rows still to insert
Request_(op, pc, status, left) == [op |-> op, pc |-> pc, status |-> status, left |-> left]

\* the loop's thread is free and takes a ready request from its queue
LoopResumes(r) ==
    /\ loop_owner = 0
    /\ reqs[r].status = "ready"
    /\ reqs' = [reqs EXCEPT ![r].status = "running"]
    /\ loop_owner' = r
    /\ UNCHANGED inflight
    /\ UNCHANGED <<chunkVars, embedVars, retrieveVars, upsertVars, genVars, parseVars>>

\* await generate_embeddings(...) (55, 105): the coroutine is suspended and
\* the loop's thread is free until the embeddings are there
AwaitEmbeddings(r) ==
    /\ loop_owner = r
    /\ reqs[r].status = "running"
    /\ reqs[r].pc = "embed"
    /\ reqs' = [reqs EXCEPT ![r].status = "awaiting"]
    /\ inflight' = inflight \cup {[req |-> r, kind |-> "embed"]}
    /\ loop_owner' = 0
    /\ UNCHANGED <<chunkVars, embedVars, retrieveVars, upsertVars, genVars, parseVars>>

\* the embeddings awaited by request r are there: r is ready to go on with
\* its first store query (57, 111)
EmbeddingsArrive(r) ==
    /\ [req |-> r, kind |-> "embed"] \in inflight
    /\ reqs' = [reqs EXCEPT ![r].status = "ready",
                            ![r].pc = IF reqs[r].op = "upsert" THEN "insert_document"
                                      ELSE "rpc"]
    /\ inflight' = inflight \ {[req |-> r, kind |-> "embed"]}
    /\ UNCHANGED loop_owner
    /\ UNCHANGED <<chunkVars, embedVars, retrieveVars, upsertVars, genVars, parseVars>>

\* client...execute() (67, 70, 85, 118, 129): an ordinary call, the loop's
\* thread stays in it until the store has answered.  The owner of the loop
\* while request r waits for the store
store_call(r) == r

\* request r sends a store query
StoreCall(r) ==
    /\ loop_owner = r
    /\ reqs[r].status = "running"
    /\ reqs[r].pc \in StorePoints
    /\ reqs' = [reqs EXCEPT ![r].status = "in_call"]
    /\ inflight' = inflight \cup {[req |-> r, kind |-> "store"]}
    /\ loop_owner' = store_call(r)
    /\ UNCHANGED <<chunkVars, embedVars, retrieveVars, upsertVars, genVars, parseVars>>

\* the statement after the store query at pc: after the insert of the
\* document the delete, then one insert per chunk row (84-85), then the
\* return; after an RPC without rows the select (120-129)
after_store(rq, has_rows) ==
    CASE rq.pc = "insert_document" -> "delete_chunks"
      [] rq.pc = "delete_chunks" -> IF rq.left > 0 THEN "insert_chunk" ELSE "return"
      [] rq.pc = "insert_chunk" -> IF rq.left > 1 THEN "insert_chunk" ELSE "return"
      [] rq.pc = "rpc" -> IF has_rows THEN "return" ELSE "select"
      [] rq.pc = "select" -> "return"

\* the store answers the query of request r
StoreAnswers(r) ==
    /\ [req |-> r, kind |-> "store"] \in inflight
    /\ \E has_rows \in BOOLEAN :
          reqs' = [reqs EXCEPT
                     ![r].status = IF loop_owner = r THEN "running" ELSE "ready",
                     ![r].pc = after_store(reqs[r], has_rows),
                     ![r].left = IF reqs[r].pc = "insert_chunk" THEN reqs[r].left - 1
                                 ELSE reqs[r].left]
    /\ inflight' = inflight \ {[req |-> r, kind |-> "store"]}
    /\ UNCHANGED loop_owner
    /\ UNCHANGED <<chunkVars, embedVars, retrieveVars, upsertVars, genVars, parseVars>>

\* return len(chunks) (88), return the context (130, 135)
RequestReturns(r) ==
    /\ loop_owner = r
    /\ reqs[r].status = "running"
    /\ reqs[r].pc = "return"
    /\ reqs' = [reqs EXCEPT ![r].status = "done"]
    /\ loop_owner' = 0
    /\ UNCHANGED inflight
    /\ UNCHANGED <<chunkVars, embedVars, retrieveVars, upsertVars, genVars, parseVars>>

LoopActions ==
    \E r \in RequestIds :
        \/ LoopResumes(r)
        \/ AwaitEmbeddings(r)
        \/ EmbeddingsArrive(r)
        \/ StoreCall(r)
        \/ StoreAnswers(r)
        \/ RequestReturns(r)

\* the requests the process has accepted: each an upsert of 1..MaxRows chunks
\* or a retrieval, at the await of its embeddings
LoopInit ==
    /\ reqs \in [RequestIds ->
                   {Request_("upsert", "embed", "ready", n) : n \in 1..MaxRows}
                   \cup {Request_("retrieve", "embed", "ready", 0)}]
    /\ loop_owner = 0
    /\ inflight = {}
    /\ ChunkIdle
    /\ EmbedIdle
    /\ RetrieveIdle
    /\ UpsertIdle
    /\ GenIdle
    /\ ParseIdle

LoopNext == LoopActions

LoopSpec == LoopInit /\ [][LoopNext]_vars

(***************************************************************************)
(* _parse_json_array (ai_service.py 27-57): the fence handling.            *)
(***************************************************************************)
\* the backquote character, which a string of this language cannot hold
Backquote == "bq"

Fence == <<Backquote, Backquote, Backquote>>

JsonWord == <<"j", "s", "o", "n">>

\* pat occurs in s at index k
OccursAt(s, pat, k) ==
    k >= 1 /\ k + Len(pat) - 1 <= Len(s) /\ SubSeq(s, k, k + Len(pat) - 1) = pat

\* s.find(pat, from), 1-based, 0 for not found
FindFrom(s, pat, from) ==
    LET at == {k \in from..(Len(s) - Len(pat) + 1) : OccursAt(s, pat, k)}
    IN  IF at = {} THEN 0 ELSE CHOOSE k \in at : \A other \in at : k <= other

\* s.rfind(pat), 1-based, 0 for not found
RFind(s, pat) ==
    LET at == {k \in 1..(Len(s) - Len(pat) + 1) : OccursAt(s, pat, k)}
    IN  IF at = {} THEN 0 ELSE CHOOSE k \in at : \A other \in at : k >= other

\* re.search(r"```(?:json)?\s*([\s\S]*?)\s*```", s) (31): the leftmost fence
\* that has a whole fence after it opens the match; the optional word is taken
\* when a fence still follows it; the lazy group ends before the first fence
\* after the opening.  start = 0 for no match, else group(1) is s[start..stop]
\* up to surrounding whitespace.
fence_match(s) ==
    LET open == FindFrom(s, Fence, 1)
        after_word == open + Len(Fence) + Len(JsonWord)
        after_fence == open + Len(Fence)
    IN  IF open = 0 THEN [start |-> 0, stop |-> 0]
        ELSE IF OccursAt(s, JsonWord, after_fence) /\ FindFrom(s, Fence, after_word) # 0
        THEN [start |-> after_word, stop |-> FindFrom(s, Fence, after_word) - 1]
        ELSE IF FindFrom(s, Fence, after_fence) # 0
        THEN [start |-> after_fence, stop |-> FindFrom(s, Fence, after_fence) - 1]
        ELSE [start |-> 0, stop |-> 0]

\* re.sub(r"^```(?:json)?\s*\n?", "", s) for an s that starts with a fence (36)
strip_opening_fence(s) ==
    LET rest == Drop(s, Len(Fence))
    IN  LStrip(IF IsPrefix(JsonWord, rest) THEN Drop(rest, Len(JsonWord)) ELSE rest)

\* re.sub(r"\n?```\s*$", "", s) for an s that ends with a fence (38)
strip_closing_fence(s) ==
    LET rest == Take(s, Len(s) - Len(Fence))
    IN  IF rest # <<>> /\ rest[Len(rest)] = "\n" THEN Take(rest, Len(rest) - 1) ELSE rest

\* ai_service.py 30-40, on raw
strip_fences(r) ==
    IF FindFrom(r, Fence, 1) = 0 THEN r
    ELSE IF fence_match(r).start # 0
    THEN Strip(SubSeq(r, fence_match(r).start, fence_match(r).stop))
    ELSE LET opened == IF IsPrefix(Fence, r) THEN strip_opening_fence(r) ELSE r
             closed == IF IsSuffix(Fence, opened) THEN strip_closing_fence(opened)
                       ELSE opened
         IN  Strip(closed)

(***************************************************************************)
(* json.loads, as _parse_json_array uses it (44, 52).  A text is a         *)
(* sequence of symbols: single characters, and the words below, which      *)
(* stand for letter sequences the code only handles whole.  A value is     *)
(* [t, v]: t names the Python type, v is a sequence of symbols (str), a    *)
(* natural number (int), a sequence of values (list) or a sequence of      *)
(* <<key, value>> pairs in insertion order (dict).                         *)
(***************************************************************************)
Quote == "\""

Words == {"question", "options", "correct_answer", "correctAnswer",
          "explanation", "answer"}

JStr(chars) == [t |-> "str", v |-> chars]

JInt(n) == [t |-> "int", v |-> n]

JList(elems) == [t |-> "list", v |-> elems]

JDict(f) == [t |-> "dict", v |-> f]

EmptyDict == <<>>

\* key in d
DictHas(d, key) == \E n \in 1..Len(d) : d[n][1] = key

\* d[key], for a key in d
DictGet(d, key) == d[CHOOSE n \in 1..Len(d) : d[n][1] = key][2]

\* d[key] = value: a key already in d keeps its place
DictSet(d, key, value) ==
    IF DictHas(d, key)
    THEN [n \in 1..Len(d) |-> IF d[n][1] = key THEN <<key, value>> ELSE d[n]]
    ELSE Append(d, <<key, value>>)

\* del d[key]
DictDel(d, key) == SelectSeq(d, LAMBDA pair : pair[1] # key)

IsDigit(c) == c \in {"0", "1"}

DigitValue(c) == IF c = "1" THEN 1 ELSE 0

\* the symbol at index k, "" past the end
CharAt(s, k) == IF k >= 1 /\ k <= Len(s) THEN s[k] ELSE ""

\* WHITESPACE.match(s, k).end(): the first index from k on that holds no
\* whitespace
RECURSIVE SkipWs(_, _)
SkipWs(s, k) == IF k <= Len(s) /\ IsSpace(s[k]) THEN SkipWs(s, k + 1) ELSE k

\* the result of a scan: the value and the index after it
Scanned(value, next) == [ok |-> TRUE, val |-> value, next |-> next]

\* JSONDecodeError
NoScan == [ok |-> FALSE, val |-> JInt(0), next |-> 0]

\* scanstring, from the index after the opening quote: the string ends at the
\* next quote and holds no control character (strict mode); the alphabet has
\* no backslash
scanstring(s, k) ==
    LET close == FindFrom(s, <<Quote>>, k)
    IN  IF close = 0 THEN NoScan
        ELSE IF \E j \in k..(close - 1) : s[j] \in {"\n", "\t", "\r"} THEN NoScan
        ELSE Scanned(JStr(SubSeq(s, k, close - 1)), close + 1)

\* the index after the digits that start at k
RECURSIVE DigitsEnd(_, _)
DigitsEnd(s, k) == IF IsDigit(CharAt(s, k)) THEN DigitsEnd(s, k + 1) ELSE k

RECURSIVE ToInt(_)
ToInt(ds) ==
    IF ds = <<>> THEN 0
    ELSE 10 * ToInt(SubSeq(ds, 1, Len(ds) - 1)) + DigitValue(ds[Len(ds)])

\* NUMBER_RE (-?(?:0|[1-9]\d*)) at k: a lone 0, or digits after a leading
\* non-zero digit; the alphabet has no sign, fraction or exponent
scan_number(s, k) ==
    IF CharAt(s, k) = "0" THEN Scanned(JInt(0), k + 1)
    ELSE Scanned(JInt(ToInt(SubSeq(s, k, DigitsEnd(s, k) - 1))), DigitsEnd(s, k))

RECURSIVE scan_once(_, _)
RECURSIVE array_items(_, _, _)
RECURSIVE object_items(_, _, _)

\* JSONArray after the first value position: value, then "]" or "," and on
array_items(s, k, acc) ==
    LET value == scan_once(s, k)
        stop == SkipWs(s, value.next)
    IN  IF ~value.ok THEN NoScan
        ELSE IF CharAt(s, stop) = "]"
        THEN Scanned(JList(Append(acc, value.val)), stop + 1)
        ELSE IF CharAt(s, stop) = ","
        THEN array_items(s, SkipWs(s, stop + 1), Append(acc, value.val))
        ELSE NoScan

\* JSONObject at a key: "key" : value, then "}" or "," and on; a key met
\* again takes the later value
object_items(s, k, acc) ==
    LET key == scanstring(s, k + 1)
        colon == SkipWs(s, key.next)
        value == scan_once(s, SkipWs(s, colon + 1))
        stop == SkipWs(s, value.next)
    IN  IF CharAt(s, k) # Quote THEN NoScan
        ELSE IF ~key.ok THEN NoScan
        ELSE IF CharAt(s, colon) # ":" THEN NoScan
        ELSE IF ~value.ok THEN NoScan
        ELSE IF CharAt(s, stop) = "}"
        THEN Scanned(JDict(DictSet(acc, key.val.v, value.val)), stop + 1)
        ELSE IF CharAt(s, stop) = ","
        THEN object_items(s, SkipWs(s, stop + 1), DictSet(acc, key.val.v, value.val))
        ELSE NoScan

\* scan_once: the value that starts at index k
scan_once(s, k) ==
    IF CharAt(s, k) = Quote THEN scanstring(s, k + 1)
    ELSE IF CharAt(s, k) = "{" THEN
        IF CharAt(s, SkipWs(s, k + 1)) = "}"
        THEN Scanned(JDict(EmptyDict), SkipWs(s, k + 1) + 1)
        ELSE object_items(s, SkipWs(s, k + 1), EmptyDict)
    ELSE IF CharAt(s, k) = "[" THEN
        IF CharAt(s, SkipWs(s, k + 1)) = "]"
        THEN Scanned(JList(<<>>), SkipWs(s, k + 1) + 1)
        ELSE array_items(s, SkipWs(s, k + 1), <<>>)
    ELSE IF IsDigit(CharAt(s, k)) THEN scan_number(s, k)
    ELSE NoScan

\* json.loads(s): one value between optional whitespace, nothing after it
json_loads(s) ==
    LET value == scan_once(s, SkipWs(s, 1))
    IN  IF value.ok /\ SkipWs(s, value.next) = Len(s) + 1 THEN value ELSE NoScan

(***************************************************************************)
(* _parse_json_array (ai_service.py 27-57): a Python list is the sequence  *)
(* of its elements.                                                        *)
(***************************************************************************)
\* 45, 53: return data if isinstance(data, list) else []
list_or_empty(value) == IF value.t = "list" THEN value.v ELSE <<>>

\* 48-57: the text from the first "[" to the last "]"
extract_array(t) ==
    LET start == FindFrom(t, <<"[">>, 1)
        end == RFind(t, <<"]">>)
        inner == json_loads(SubSeq(t, start, end))
    IN  IF start # 0 /\ end # 0 /\ end > start /\ inner.ok
        THEN list_or_empty(inner.val)
        ELSE <<>>

\* 43-57, on the text the fence handling left
parse_stripped(t) ==
    IF json_loads(t).ok THEN list_or_empty(json_loads(t).val) ELSE extract_array(t)

_parse_json_array(t) == parse_stripped(strip_fences(Strip(t)))

(***************************************************************************)
(* Python operations the provider functions and the routes apply to the    *)
(* parsed values.                                                          *)
(***************************************************************************)
\* bool(value)
Truthy(value) == IF value.t = "int" THEN value.v # 0 ELSE value.v # <<>>

LowerCase == <<"a", "b", "x", "question", "options", "correct_answer",
               "correctAnswer", "explanation", "answer">>

UpperCase == <<"A", "B", "X", "QUESTION", "OPTIONS", "CORRECT_ANSWER",
               "CORRECTANSWER", "EXPLANATION", "ANSWER">>

\* str.upper()
UpperSymbol(c) ==
    IF \E n \in 1..Len(LowerCase) : LowerCase[n] = c
    THEN UpperCase[CHOOSE n \in 1..Len(LowerCase) : LowerCase[n] = c]
    ELSE c

Upper(str) == [n \in 1..Len(str) |-> UpperSymbol(str[n])]

DigitSymbols == <<"0", "1", "2", "3", "4", "5", "6", "7", "8", "9">>

\* str(n) of a natural number
RECURSIVE IntDigits(_)
IntDigits(n) ==
    IF n < 10 THEN <<DigitSymbols[n + 1]>>
    ELSE IntDigits(n \div 10) \o IntDigits(n % 10)

\* the text of a value: json.dumps(value) with quote the double quote,
\* repr(value) with quote the apostrophe; both put ", " between elements and
\* ": " after a key, and the strings of the alphabet need no escape
RECURSIVE Written(_, _)
RECURSIVE WrittenElems(_, _)
RECURSIVE WrittenPairs(_, _)
WrittenElems(elems, quote) ==
    IF elems = <<>> THEN <<>>
    ELSE Written(elems[1], quote)
         \o (IF Len(elems) > 1 THEN <<",", " ">> ELSE <<>>)
         \o WrittenElems(Tail(elems), quote)

WrittenPairs(pairs, quote) ==
    IF pairs = <<>> THEN <<>>
    ELSE <<quote>> \o pairs[1][1] \o <<quote, ":", " ">> \o Written(pairs[1][2], quote)
         \o (IF Len(pairs) > 1 THEN <<",", " ">> ELSE <<>>)
         \o WrittenPairs(Tail(pairs), quote)

Written(value, quote) ==
    IF value.t = "str" THEN <<quote>> \o value.v \o <<quote>>
    ELSE IF value.t = "int" THEN IntDigits(value.v)
    ELSE IF value.t = "list" THEN <<"[">> \o WrittenElems(value.v, quote) \o <<"]">>
    ELSE <<"{">> \o WrittenPairs(value.v, quote) \o <<"}">>

\* json.dumps(value)
Serialize(value) == Written(value, Quote)

\* str(value)
py_str(value) == IF value.t = "str" THEN value.v ELSE Written(value, "'")

(***************************************************************************)
(* The quiz post-processing of the provider functions (ai_service.py       *)
(* 129-137, 203-209) and the normalisation of the routes (quiz.py 37-56,   *)
(* flashcards.py 37-49).                                                   *)
(***************************************************************************)
K_question == <<"question">>

K_options == <<"options">>

K_correct_answer == <<"correct_answer">>

K_correctAnswer == <<"correctAnswer">>

K_explanation == <<"explanation">>

K_answer == <<"answer">>

\* the outcome of a step over one item
Done(value) == [ok |-> TRUE, skip |-> FALSE, val |-> value, exc |-> ""]

\* continue
Skipped == [ok |-> TRUE, skip |-> TRUE, val |-> JInt(0), exc |-> ""]

Throws(exc) == [ok |-> FALSE, skip |-> FALSE, val |-> JInt(0), exc |-> exc]

\* d.setdefault(key, value)
SetDefault(d, key, value) == IF DictHas(d, key) THEN d ELSE DictSet(d, key, value)

\* d.get(key), None when the key is missing; None is falsy and the callers only
\* test the result for truth
DictGetOr(d, key, default) == IF DictHas(d, key) THEN DictGet(d, key) ELSE default

\* 133-134, 205-206 left out: the answer key stays where the provider put it
rename_answer_skipped(d) == d

\* 133-134, 205-206, on a dict
rename_answer(d) ==
    IF DictHas(d, K_correctAnswer)
    THEN DictSet(DictDel(d, K_correctAnswer), K_correct_answer,
                 JStr(Upper(Strip(py_str(DictGet(d, K_correctAnswer))))))
    ELSE d

\* 132-136, 204-208: the body of the loop on one item.  On an item that is no
\* dict: "correctAnswer" in item raises TypeError for an int and is a
\* substring or membership test for a str or a list, after which pop or
\* setdefault does not exist (AttributeError) or rejects its arguments
\* (TypeError)
post_process_item(item) ==
    IF item.t = "dict"
    THEN Done(JDict(SetDefault(SetDefault(rename_answer(item.v), K_options, JList(<<>>)),
                               K_explanation, JStr(<<>>))))
    ELSE IF item.t = "int" THEN Throws("TypeError")
    ELSE IF item.t = "list" /\ \E n \in 1..Len(item.v) : item.v[n] = JStr(K_correctAnswer)
    THEN Throws("TypeError")
    ELSE Throws("AttributeError")

\* the loop 132-136, 204-208: the items processed, or the exception of the
\* first item that raises
post_process(its) ==
    LET outcomes == [n \in 1..Len(its) |-> post_process_item(its[n])]
        bad == {n \in 1..Len(its) : ~outcomes[n].ok}
    IN  IF bad = {}
        THEN [ok |-> TRUE, items |-> [n \in 1..Len(its) |-> outcomes[n].val], exc |-> ""]
        ELSE [ok |-> FALSE, items |-> <<>>,
              exc |-> outcomes[CHOOSE n \in bad : \A other \in bad : n <= other].exc]

\* quiz.py 39 and flashcards.py 39: the routes read at most this many items
quiz_cap == 10

flashcards_cap == 15

\* quiz.py 43: len(opts) < 2
route_min_options == 2

\* responses.py 50: Field(..., min_length=2, max_length=6)
min_options == 2

max_options == 6

\* quiz.py 38
valid_letters == {<<"A">>, <<"B">>, <<"C">>, <<"D">>}

\* (value or "").strip(): a falsy value gives "", a str is stripped, any
\* other value has no strip
StrippedOrEmpty(value) ==
    IF ~Truthy(value) THEN Done(<<>>)
    ELSE IF value.t = "str" THEN Done(Strip(value.v))
    ELSE Throws("AttributeError")

\* a value no key maps to: item.get(key) is None
None == JStr(<<>>)

\* quiz.py 45-47
normalised_answer(d) ==
    LET given == DictGetOr(d, K_correct_answer, None)
        correct == Upper(Strip(IF Truthy(given) THEN py_str(given) ELSE <<"A">>))
    IN  IF correct \in valid_letters THEN correct ELSE <<"A">>

\* QuizItem(question, options, correct_answer, explanation) (quiz.py 50-55,
\* responses.py 46-52): the validation of the options list
QuizItem(q, opts, correct, exp) ==
    IF Len(opts) < min_options \/ Len(opts) > max_options
    THEN Throws("ValidationError")
    ELSE Done([question |-> q, options |-> opts, correct_answer |-> correct,
               explanation |-> exp])

\* quiz.py 40-56, the body of the loop on one item: the QuizItem appended,
\* continue, or the exception raised
quiz_route_item(item) ==
    IF item.t # "dict" THEN Throws("AttributeError")
    ELSE LET q == StrippedOrEmpty(DictGetOr(item.v, K_question, None))
             opts_raw == DictGetOr(item.v, K_options, None)
             opts == IF Truthy(opts_raw) /\ opts_raw.t = "list"
                     THEN [n \in 1..Len(opts_raw.v) |-> Strip(py_str(opts_raw.v[n]))]
                     ELSE <<>>
             exp == StrippedOrEmpty(DictGetOr(item.v, K_explanation, None))
         IN  IF ~q.ok THEN q
             ELSE IF q.val = <<>> \/ Len(opts) < route_min_options THEN Skipped
             ELSE IF ~exp.ok THEN exp
             ELSE QuizItem(q.val, opts, normalised_answer(item.v), exp.val)

\* item.get(key, "").strip() (flashcards.py 40-41): a value that is no str has
\* no strip
StrippedOrMissing(d, key) ==
    IF ~DictHas(d, key) THEN Done(<<>>)
    ELSE IF DictGet(d, key).t = "str" THEN Done(Strip(DictGet(d, key).v))
    ELSE Throws("AttributeError")

\* flashcards.py 40-43, the body of the loop on one item
flashcards_route_item(item) ==
    IF item.t # "dict" THEN Throws("AttributeError")
    ELSE LET q == StrippedOrMissing(item.v, K_question)
             a == StrippedOrMissing(item.v, K_answer)
         IN  IF ~q.ok THEN q
             ELSE IF ~a.ok THEN a
             ELSE IF q.val = <<>> \/ a.val = <<>> THEN Skipped
             ELSE Done([question |-> q.val, answer |-> a.val])

\* the loop of a route over its items: the list built with the index of the
\* item each element came from, or the first exception
route_loop(outcomes) ==
    LET bad == {n \in 1..Len(outcomes) : ~outcomes[n].ok}
        keep == SelectSeq([n \in 1..Len(outcomes) |-> n],
                          LAMBDA n : ~outcomes[n].skip)
    IN  IF bad = {}
        THEN [ok |-> TRUE, built |-> [n \in 1..Len(keep) |-> outcomes[keep[n]].val],
              from |-> keep, exc |-> ""]
        ELSE [ok |-> FALSE, built |-> <<>>, from |-> <<>>,
              exc |-> outcomes[CHOOSE n \in bad : \A other \in bad : n <= other].exc]

(***************************************************************************)
(* The provider responses tried.                                           *)
(***************************************************************************)
ResponseAlphabet == {"[", "]", "{", "}", Quote, ",", "1", " ", Backquote}

\* every text of at most MaxResponseLen symbols
ShortResponses == SeqsUpTo(ResponseAlphabet, MaxResponseLen)

Letter(c) == JStr(<<c>>)

Copies(value, n) == [k \in 1..n |-> value]

Pairs(question, options, key, answer, explanation) ==
    <<<<K_question, question>>, <<K_options, options>>, <<key, answer>>,
      <<K_explanation, explanation>>>>

\* a quiz item as the prompt asks for it
BaseQuizItem == JDict(Pairs(Letter("a"), JList(<<Letter("a"), Letter("b")>>),
                            K_correctAnswer, Letter("b"), Letter("a")))

\* the values tried for the answer key
AnswerValues ==
    {Letter("b"), Letter("B"), Letter("D"), Letter("x"), JStr(<<" ", "b", " ">>),
     JStr(<<>>), JInt(1), JList(<<Letter("b")>>)}

\* quiz items that differ in where and how the answer is given
AnswerItems ==
    {JDict(Pairs(Letter("a"), JList(<<Letter("a"), Letter("b")>>), key, answer, Letter("a"))) :
        key \in {K_correctAnswer, K_correct_answer}, answer \in AnswerValues}
    \cup {JDict(<<<<K_question, Letter("a")>>,
                  <<K_options, JList(<<Letter("a"), Letter("b")>>)>>>>),
          JDict(<<<<K_question, Letter("a")>>,
                  <<K_options, JList(<<Letter("a"), Letter("b")>>)>>,
                  <<K_correct_answer, Letter("a")>>, <<K_correctAnswer, Letter("b")>>>>)}

\* quiz items that differ in their options
OptionItems ==
    {JDict(Pairs(Letter("a"), JList(Copies(Letter("a"), n)), K_correctAnswer, Letter("b"),
                 Letter("a"))) : n \in 0..MaxOptions}
    \cup {JDict(Pairs(Letter("a"), Letter("a"), K_correctAnswer, Letter("b"), Letter("a"))),
          JDict(Pairs(Letter("a"), JList(<<JInt(1), JList(<<Letter("a")>>)>>),
                      K_correctAnswer, Letter("b"), Letter("a"))),
          JDict(<<<<K_question, Letter("a")>>>>)}

\* quiz items that differ in their question or explanation
QuestionItems ==
    {JDict(Pairs(question, JList(<<Letter("a"), Letter("b")>>), K_correctAnswer,
                 Letter("b"), explanation)) :
        question \in {JStr(<<>>), JStr(<<" ">>), JInt(1), JInt(0)},
        explanation \in {Letter("a"), JInt(1)}}
    \cup {JDict(Pairs(Letter("a"), JList(<<Letter("a"), Letter("b")>>), K_correctAnswer,
                      Letter("b"), JInt(1)))}

FlashcardItems ==
    {JDict(<<<<K_question, Letter("a")>>, <<K_answer, Letter("b")>>>>),
     JDict(<<<<K_question, Letter("a")>>>>),
     JDict(<<<<K_question, JInt(1)>>, <<K_answer, Letter("b")>>>>),
     JDict(<<<<K_question, JStr(<<" ">>)>>, <<K_answer, Letter("b")>>>>)}

\* mappings with fences or brackets inside a string
TextItems ==
    {JDict(EmptyDict),
     JDict(<<<<K_question, JStr(Fence)>>>>),
     JDict(<<<<K_question, JStr(Fence)>>, <<K_answer, JStr(Fence)>>>>),
     JDict(<<<<K_question, JStr(<<"[", "a", "]">>)>>>>)}

Mappings == {BaseQuizItem} \cup AnswerItems \cup OptionItems \cup QuestionItems
            \cup FlashcardItems \cup TextItems

\* array elements that are no mapping
NonMappings ==
    {JInt(1), Letter("a"), JStr(K_correctAnswer), JList(<<JInt(1)>>),
     JList(<<JStr(K_correctAnswer)>>)}

\* the JSON arrays of mappings tried
MappingArrays ==
    {JList(<<>>), JList(Copies(BaseQuizItem, quiz_cap + 1))}
    \cup {JList(<<m>>) : m \in Mappings}
    \cup {JList(<<BaseQuizItem, m>>) : m \in OptionItems \cup QuestionItems \cup TextItems}

\* the JSON arrays tried that hold an element that is no mapping
MixedArrays ==
    {JList(<<x>>) : x \in NonMappings}
    \cup {JList(<<BaseQuizItem, x>>) : x \in NonMappings}
    \cup {JList(<<x, BaseQuizItem>>) : x \in NonMappings}

\* the JSON texts tried that are no array as a whole
NonArrays ==
    {JDict(<<<<K_question, a>>>>) : a \in {JList(<<BaseQuizItem>>), JList(<<>>)}}
    \cup {JStr(<<"[", "1", "]">>), JInt(1), BaseQuizItem}

Prose == <<"a", ":", " ">>

Wrappers == {"bare", "fenced", "fenced_json", "opening_fence", "opening_fence_json",
             "closing_fence", "prose", "prose_before", "prose_after"}

\* the text of a JSON value in one of the wrappings a provider puts around it
Wrap(w, t) ==
    CASE w = "bare" -> t
      [] w = "fenced" -> Fence \o <<"\n">> \o t \o <<"\n">> \o Fence
      [] w = "fenced_json" -> Fence \o JsonWord \o <<"\n">> \o t \o <<"\n">> \o Fence
      [] w = "opening_fence" -> Fence \o <<"\n">> \o t
      [] w = "opening_fence_json" -> Fence \o JsonWord \o <<"\n">> \o t
      [] w = "closing_fence" -> t \o <<"\n">> \o Fence
      [] w = "prose" -> Prose \o t \o <<" ">> \o Prose
      [] w = "prose_before" -> Prose \o t
      [] w = "prose_after" -> t \o <<" ">> \o Prose

WrappedResponses ==
    {Wrap(w, Serialize(value)) : w \in Wrappers,
                                 value \in MappingArrays \cup MixedArrays \cup NonArrays}

Responses == ShortResponses \cup WrappedResponses

\* the responses tried for a second call: an empty array, a well-formed quiz,
\* an array of a non-mapping
LaterResponses ==
    {Serialize(JList(<<>>)), Serialize(JList(<<BaseQuizItem>>)), Serialize(JList(<<JInt(1)>>))}

(***************************************************************************)
(* One flashcards or quiz request from the provider's response to the      *)
(* route's answer: the chain of generate_flashcards / generate_quiz around *)
(* a provider function that parses the response it received.               *)
(***************************************************************************)
\* the first response of a request is any of Responses, a later one (the
\* retry of _generate_quiz_gemini, the provider the chain falls back to) one
\* of LaterResponses
ResponsesAt(inv, n) == IF inv = 1 /\ n = 0 THEN Responses ELSE LaterResponses

\* the text a provider function hands to _parse_json_array: _gemini_generate_sync
\* strips the response (85), and both providers replace an empty text by "[]"
\* (116, 131, 185, 202)
text_or_empty_array(p, r) ==
    LET t == IF p = "gemini" THEN Strip(r) ELSE r
    IN  IF t = <<>> THEN <<"[", "]">> ELSE t

\* the API call of the provider function answers
ProviderResponds ==
    /\ gpc \in Running
    /\ task \in Structured
    /\ messages = <<"user">>
    /\ ppc = "idle"
    /\ \E r \in ResponsesAt(ginv, tries) :
          response_text' = text_or_empty_array(ProviderAt(gpc), r)
    /\ tries' = tries + 1
    /\ ppc' = "strip"
    /\ UNCHANGED <<raw, json_text, parsed_items, quiz_items, kept_idx, http>>
    /\ UNCHANGED <<task, messages, gpc, ginv, gcalls, gresult, buffer, gthread, gerror,
                   yielded, connected, sse>>
    /\ UNCHANGED <<chunkVars, embedVars, retrieveVars, upsertVars, loopVars>>

\* _parse_json_array 28-40
ParseStrip ==
    /\ ppc = "strip"
    /\ raw' = Strip(response_text)
    /\ json_text' = strip_fences(Strip(response_text))
    /\ ppc' = "loads"
    /\ UNCHANGED <<response_text, parsed_items, quiz_items, kept_idx, http>>
    /\ UNCHANGED genVars
    /\ UNCHANGED <<chunkVars, embedVars, retrieveVars, upsertVars, loopVars>>

\* _parse_json_array 43-46: json.loads of the whole text
ParseWhole ==
    /\ ppc = "loads"
    /\ IF json_loads(json_text).ok
       THEN /\ parsed_items' = list_or_empty(json_loads(json_text).val)
            /\ ppc' = "parsed"
       ELSE /\ parsed_items' = parsed_items
            /\ ppc' = "extract"
    /\ UNCHANGED <<response_text, raw, json_text, quiz_items, kept_idx, http>>
    /\ UNCHANGED genVars
    /\ UNCHANGED <<chunkVars, embedVars, retrieveVars, upsertVars, loopVars>>

\* _parse_json_array 47-57: the except branch
ParseExtract ==
    /\ ppc = "extract"
    /\ parsed_items' = extract_array(json_text)
    /\ ppc' = "parsed"
    /\ UNCHANGED <<response_text, raw, json_text, quiz_items, kept_idx, http>>
    /\ UNCHANGED genVars
    /\ UNCHANGED <<chunkVars, embedVars, retrieveVars, upsertVars, loopVars>>

\* _generate_flashcards_gemini 116, _generate_flashcards_openai 186: the
\* provider function returns what _parse_json_array returned
FlashcardsReturn ==
    /\ ppc = "parsed"
    /\ task = "flashcards"
    /\ gresult' = GReturned(parsed_items)
    /\ gpc' = "returned"
    /\ ppc' = "idle"
    /\ UNCHANGED <<response_text, raw, json_text, parsed_items, quiz_items, kept_idx, http>>
    /\ UNCHANGED <<task, messages, ginv, tries, gcalls, buffer, gthread, gerror,
                   yielded, connected, sse>>
    /\ UNCHANGED <<chunkVars, embedVars, retrieveVars, upsertVars, loopVars>>

\* the loop 132-136, 204-208 runs to its end
QuizPostProcess ==
    /\ ppc = "parsed"
    /\ task = "quiz"
    /\ post_process(parsed_items).ok
    /\ parsed_items' = post_process(parsed_items).items
    /\ ppc' = "processed"
    /\ UNCHANGED <<response_text, raw, json_text, quiz_items, kept_idx, http>>
    /\ UNCHANGED genVars
    /\ UNCHANGED <<chunkVars, embedVars, retrieveVars, upsertVars, loopVars>>

\* the loop 132-136, 204-208 raises: the exception leaves the provider
\* function and meets the except clauses of generate_quiz (277-281, 286-292),
\* or no handler in the last block
QuizPostProcessRaises ==
    /\ ppc = "parsed"
    /\ task = "quiz"
    /\ ~post_process(parsed_items).ok
    /\ LET h == on_failure(task, gpc, settings, post_process(parsed_items).exc)
       IN  IF h.to = "raise"
           THEN /\ gpc' = "raised"
                /\ gresult' = h.error
                /\ UNCHANGED <<ginv, tries>>
           ELSE Enter(h.to)
    /\ ppc' = "idle"
    /\ UNCHANGED <<response_text, raw, json_text, parsed_items, quiz_items, kept_idx, http>>
    /\ UNCHANGED <<task, messages, gcalls, buffer, gthread, gerror, yielded, connected,
                   sse>>
    /\ UNCHANGED <<chunkVars, embedVars, retrieveVars, upsertVars, loopVars>>

\* _generate_quiz_gemini 139-142: no item the first time, _run_once again
QuizRetry ==
    /\ ppc = "processed"
    /\ retries_on_empty(task, ProviderAt(gpc))
    /\ tries = 1
    /\ parsed_items = <<>>
    /\ ppc' = "idle"
    /\ UNCHANGED <<response_text, raw, json_text, parsed_items, quiz_items, kept_idx, http>>
    /\ UNCHANGED genVars
    /\ UNCHANGED <<chunkVars, embedVars, retrieveVars, upsertVars, loopVars>>

\* _generate_quiz_gemini 143, _generate_quiz_openai 209: return items
QuizReturn ==
    /\ ppc = "processed"
    /\ ~(retries_on_empty(task, ProviderAt(gpc)) /\ tries = 1 /\ parsed_items = <<>>)
    /\ gresult' = GReturned(parsed_items)
    /\ gpc' = "returned"
    /\ ppc' = "idle"
    /\ UNCHANGED <<response_text, raw, json_text, parsed_items, quiz_items, kept_idx, http>>
    /\ UNCHANGED <<task, messages, ginv, tries, gcalls, buffer, gthread, gerror,
                   yielded, connected, sse>>
    /\ UNCHANGED <<chunkVars, embedVars, retrieveVars, upsertVars, loopVars>>

\* the answer of a route to an exception of generate_flashcards or
\* generate_quiz: 400 for a ValueError (quiz.py 34-35, flashcards.py 34-35),
\* else the exception leaves the route and the server answers 500
http_of_exception(error) ==
    IF error.exc = "ValueError" THEN [status |-> "400", detail |-> error.msg]
    ELSE [status |-> "500", detail |-> error.exc]

\* generate_quiz_endpoint, quiz.py 32-64
QuizRoute ==
    /\ task = "quiz"
    /\ gpc \in {"returned", "raised"}
    /\ ppc = "idle"
    /\ IF gpc = "raised"
       THEN /\ http' = http_of_exception(gresult)
            /\ UNCHANGED <<quiz_items, kept_idx>>
       ELSE LET its == Take(gresult.items, quiz_cap)
                out == route_loop([n \in 1..Len(its) |-> quiz_route_item(its[n])])
            IN  /\ quiz_items' = out.built
                /\ kept_idx' = out.from
                /\ http' = IF out.ok THEN [status |-> "200", detail |-> ""]
                           ELSE [status |-> "500", detail |-> out.exc]
    /\ ppc' = "done"
    /\ UNCHANGED <<response_text, raw, json_text, parsed_items>>
    /\ UNCHANGED genVars
    /\ UNCHANGED <<chunkVars, embedVars, retrieveVars, upsertVars, loopVars>>

\* generate_flashcards_endpoint, flashcards.py 32-57
FlashcardsRoute ==
    /\ task = "flashcards"
    /\ gpc \in {"returned", "raised"}
    /\ ppc = "idle"
    /\ IF gpc = "raised"
       THEN /\ http' = http_of_exception(gresult)
            /\ UNCHANGED <<quiz_items, kept_idx>>
       ELSE LET its == Take(gresult.items, flashcards_cap)
                out == route_loop([n \in 1..Len(its) |->
                                      flashcards_route_item(its[n])])
            IN  /\ quiz_items' = out.built
                /\ kept_idx' = out.from
                /\ http' = IF ~out.ok THEN [status |-> "500", detail |-> out.exc]
                           ELSE IF out.built = <<>>
                           THEN [status |-> "500",
                                 detail |-> "Could not generate flashcards"]
                           ELSE [status |-> "200", detail |-> ""]
    /\ ppc' = "done"
    /\ UNCHANGED <<response_text, raw, json_text, parsed_items>>
    /\ UNCHANGED genVars
    /\ UNCHANGED <<chunkVars, embedVars, retrieveVars, upsertVars, loopVars>>

ParseActions ==
    \/ ProviderResponds
    \/ ParseStrip
    \/ ParseWhole
    \/ ParseExtract
    \/ FlashcardsReturn
    \/ QuizPostProcess
    \/ QuizPostProcessRaises
    \/ QuizRetry
    \/ QuizReturn
    \/ QuizRoute
    \/ FlashcardsRoute

\* the provider settings tried: automatic mode with either or both providers
\* configured, and the free-tier provider selected
ParseSettingsSet ==
    {cfg \in GenSettingsSet :
        \/ cfg.ai_provider = "auto" /\ (cfg.openai_api_key \/ cfg.gemini_api_key)
        \/ cfg.ai_provider = "gemini" /\ cfg.gemini_api_key /\ ~cfg.openai_api_key}

ParseInit ==
    /\ settings \in ParseSettingsSet
    /\ env = [native |-> [p \in Providers |-> 1], gemini_up |-> TRUE, local |-> "ok",
              off |-> 0]
    /\ texts = <<>>
    /\ EmbedLocalsInit
    /\ epc = "idle"
    /\ ChunkIdle
    /\ RetrieveIdle
    /\ store_documents = {}
    /\ uenv = [fail_at |-> 0]
    /\ UpsertLocalsInit
    /\ upc = "idle"
    /\ task \in Structured
    /\ messages = <<"user">>
    /\ content = ContentOfLen(1)
    /\ GenLocalsInit
    /\ connected = TRUE
    /\ gpc = "start"
    /\ ParseIdle
    /\ LoopIdle

ParseNext == GenStart \/ ParseActions

ParseSpec == ParseInit /\ [][ParseNext]_vars

(***************************************************************************)
(* Properties of chunk_text.                                               *)
(***************************************************************************)
ChunkDone == cpc = "done"

\* the sentences a chunk is made of
SentencesOf(chunk) == split_sentences(chunk)

\* the text that follows chunks[c]: the next chunk, or the buffer being filled
FollowerOf(c) ==
    IF c < Len(chunks) THEN chunks[c + 1] ELSE Join(current_chunk, <<" ">>)

\* seed is the join of the last k sentences of chunk, for some k >= 0
IsSentenceSuffix(seed, chunk) ==
    LET ss == SentencesOf(chunk)
    IN  \E k \in 0..Len(ss) : seed = Join(SubSeq(ss, Len(ss) - k + 1, Len(ss)), <<" ">>)

\* chunks[c] without the overlap seed it was started with
RemainderOf(c) ==
    IF c = 1 \/ seeds[c - 1] = <<>> THEN chunks[c]
    ELSE LStrip(Drop(chunks[c], Len(seeds[c - 1])))

RECURSIVE RemainderSentences(_)
RemainderSentences(n) ==
    IF n = 0 THEN <<>>
    ELSE RemainderSentences(n - 1) \o SentencesOf(RemainderOf(n))

\* C1: every returned chunk is at most chunk_size characters long, unless it
\* consists of exactly one sentence that is itself longer than chunk_size
\* (chunks that start with an overlap seed included).
C1_ChunkWithinSize ==
    ChunkDone =>
        \A c \in 1..Len(chunks) :
            \/ Len(chunks[c]) <= chunk_size
            \/ /\ Len(SentencesOf(chunks[c])) = 1
               /\ Len(chunks[c]) > chunk_size

\* C2: with overlap > 0, the seed taken when chunk c was closed is a
\* sentence-aligned suffix of chunk c and a textual prefix of what follows it.
C2_SeedSuffixAndPrefix ==
    overlap > 0 =>
        \A c \in 1..Len(seeds) :
            /\ c <= Len(chunks)
            /\ IsSuffix(seeds[c], chunks[c])
            /\ IsSentenceSuffix(seeds[c], chunks[c])
            /\ IsPrefix(seeds[c], FollowerOf(c))

\* a finished run in which a seed of two sentences was carried over
C2_Witness ==
    /\ ChunkDone
    /\ overlap > 0
    /\ \E c \in 1..Len(seeds) :
          /\ Len(SentencesOf(seeds[c])) = 2
          /\ Len(chunks[c + 1]) > Len(seeds[c])

\* C3: no sentence is truncated or dropped: every sentence of the normalized
\* text is a sentence of some chunk, and the chunks without their overlap
\* seeds, concatenated in chunk order, are the sentence sequence of the text.
C3_NoSentenceLost ==
    ChunkDone =>
        LET all == split_sentences(clean_text(text))
        IN  /\ \A k \in 1..Len(all) :
                  \E c \in 1..Len(chunks) :
                      \E j \in 1..Len(SentencesOf(chunks[c])) :
                          SentencesOf(chunks[c])[j] = all[k]
            /\ RemainderSentences(Len(chunks)) = all
            /\ Len(seeds) = IF chunks = <<>> THEN 0 ELSE Len(chunks) - 1

\* a finished run of several chunks, one started from a seed, that placed a
\* sentence longer than chunk_size
C3_Witness ==
    /\ ChunkDone
    /\ Len(chunks) >= 2
    /\ \E c \in 1..Len(seeds) : seeds[c] # <<>>
    /\ \E k \in 1..Len(sentences) : Len(sentences[k]) > chunk_size


(***************************************************************************)
(* Properties of generate_embeddings.                                      *)
(***************************************************************************)
EmbedEnded == epc \in {"returned", "raised"}

Rank(p) == CASE p = "openai" -> 1 [] p = "gemini" -> 2 [] p = "local" -> 3

Hosted == {"openai", "gemini"}

\* provider p was attempted and raised
Failed(p) == \E k \in 1..Len(attempts) :
                 attempts[k].provider = p /\ attempts[k].outcome = "error"

Attempted(p) == \E k \in 1..Len(attempts) : attempts[k].provider = p

\* the requests sent to provider p, in order
RequestsTo(p) == SelectSeq(requests, LAMBDA r : r.provider = p)

\* C4: every returned vector is exactly embedding_dimensions long, whichever
\* provider produced it and whatever length that provider emitted.
C4_TargetDimension ==
    epc = "returned" =>
        \A k \in 1..Len(eresult.vectors) :
            Len(eresult.vectors[k].arr) = settings.embedding_dimensions

C6_FallbackToFreeTier ==
    (EmbedEnded /\ Failed("openai") /\ settings.gemini_api_key /\ env.gemini_up) =>
        /\ epc = "returned"
        /\ Len(eresult.vectors) = Len(texts)
        /\ \A k \in 1..Len(eresult.vectors) :
              /\ eresult.vectors[k].src = "gemini"
              /\ Len(eresult.vectors[k].arr) = settings.embedding_dimensions

\* C7: providers are tried in the order paid, free-tier, local; the free-tier
\* provider only if the paid one is unconfigured or has failed; the local model
\* only if local fallback is enabled and every configured hosted provider has
\* failed; and none after one has succeeded.
C7_ProviderOrder ==
    /\ \A j, k \in 1..Len(attempts) :
          j < k => Rank(attempts[j].provider) < Rank(attempts[k].provider)
    /\ \A j, k \in 1..Len(requests) :
          j < k => Rank(requests[j].provider) <= Rank(requests[k].provider)
    /\ \A k \in 1..Len(requests) : Attempted(requests[k].provider)
    /\ Attempted("gemini") => (~settings.openai_api_key \/ Failed("openai"))
    /\ Attempted("local") =>
          /\ settings.embedding_fallback_to_local
          /\ settings.openai_api_key => Failed("openai")
          /\ settings.gemini_api_key => Failed("gemini")
    /\ \A k \in 1..Len(attempts) :
          k < Len(attempts) => attempts[k].outcome = "error"
    /\ \A k \in 1..Len(attempts) :
          attempts[k].outcome = "ok" => epc = "returned"

\* both hosted providers failed and the local model answered
C7_Witness ==
    /\ epc = "returned"
    /\ Len(attempts) = 3
    /\ Failed("openai")
    /\ Failed("gemini")
    /\ attempts[3].provider = "local"
    /\ attempts[3].outcome = "ok"

\* C8: on an empty list the call returns an empty list and no provider is
\* attempted or sent a request.
C8_EmptyInput ==
    texts = <<>> =>
        /\ attempts = <<>>
        /\ requests = <<>>
        /\ epc \in {"idle", "start", "returned"}
        /\ epc = "returned" => eresult = Returned(<<>>)

\* the empty list returned although every provider is configured
C8_Witness ==
    /\ texts = <<>>
    /\ epc = "returned"
    /\ settings.openai_api_key
    /\ settings.gemini_api_key
    /\ settings.embedding_fallback_to_local

NoProviderConfigured ==
    /\ ~settings.openai_api_key
    /\ ~settings.gemini_api_key
    /\ ~settings.embedding_fallback_to_local

RaisedNoProvider ==
    /\ epc = "raised"
    /\ eresult = Raised("ValueError", "No embedding provider available")
    /\ attempts = <<>>
    /\ requests = <<>>

\* C9 as stated: with no hosted credential and local fallback disabled, every
\* call fails with the configuration error, no provider being called.
C9_ConfigErrorAlways ==
    (NoProviderConfigured /\ EmbedEnded) => RaisedNoProvider

\* C9 (amended): with no hosted credential and local fallback disabled, every
\* call on a non-empty list fails with the configuration error, no provider
\* being called.
C9_ConfigErrorNonEmpty ==
    (NoProviderConfigured /\ texts # <<>>) =>
        /\ attempts = <<>>
        /\ requests = <<>>
        /\ EmbedEnded => RaisedNoProvider

\* a non-empty call with nothing configured ended in the configuration error
C9_Witness ==
    /\ NoProviderConfigured
    /\ texts # <<>>
    /\ RaisedNoProvider


(***************************************************************************)
(* Properties of retrieve_context.                                         *)
(***************************************************************************)
\* the number of chunk texts a context string holds
RECURSIVE CountDelimiters(_)
CountDelimiters(str) ==
    IF Len(str) < Len(Delimiter) THEN 0
    ELSE IF IsPrefix(Delimiter, str)
         THEN 1 + CountDelimiters(Drop(str, Len(Delimiter)))
         ELSE CountDelimiters(Tail(str))

ChunkCount(str) == IF str = <<>> THEN 0 ELSE 1 + CountDelimiters(str)

\* C10: the returned context is the texts of at most top_k chunks of the
\* requested document, in the order the store returned them, joined by the
\* delimiter; it is the empty string when the store yields no chunk.
C10_ContextOfTopK ==
    rpc = "done" =>
        /\ rresult.kind = "ok"
        /\ ChunkCount(rresult.value) <= top_k
        /\ rresult.value = Join(Contents(Take(data, top_k)), Delimiter)
        /\ \A k \in 1..Len(data) :
              /\ data[k] \in store_chunks
              /\ data[k].document_id = document_id
        /\ data = <<>> => rresult.value = <<>>

\* the unranked fallback returned more rows than top_k and the context was cut
C10_Witness ==
    /\ rpc = "done"
    /\ Len(queries) = 2
    /\ Len(data) > top_k
    /\ ChunkCount(rresult.value) = top_k
    /\ top_k >= 2

\* C11: when the similarity operation is unavailable (its call fails) or
\* returns no row, retrieve_context does not fail: it lists up to 2 * top_k
\* chunks of the document and returns the first top_k of them.
C11_FallbackWhenUnavailableOrEmpty ==
    ( /\ rpc \in {"done", "raised"}
      /\ queries # <<>>
      /\ renv.select_available
      /\ \/ ~renv.rpc_available
         \/ Len(queries) = 2 )
    => /\ rpc = "done"
       /\ Len(queries) = 2
       /\ queries[2] = StoreQuery("select", document_id, top_k * 2)
       /\ Len(data) <= top_k * 2
       /\ rresult = RReturned(Join(Contents(Take(data, top_k)), Delimiter))

(***************************************************************************)
(* Properties of upsert_document.                                          *)
(***************************************************************************)
\* the rows this call has inserted so far
InsertedRows == {chunk_rows[k] : k \in 1..(row - 1)}

GenEnded == gpc \in {"returned", "raised"}

\* the API calls made by provider function call number n
CallsOf(n) == SelectSeq(gcalls, LAMBDA c : c.inv = n)

\* the API calls made to provider p
CallsTo(p) == SelectSeq(gcalls, LAMBDA c : c.provider = p)

\* some call to provider p has failed
HasFailed(p) == \E k \in 1..Len(gcalls) : gcalls[k].provider = p /\ gcalls[k].outcome = "error"

\* C13: in automatic mode the first provider called, by generate_flashcards,
\* generate_quiz and chat_completion_stream alike, is the free-tier provider
\* if and only if the paid provider has no credential; otherwise it is the
\* paid provider.
C13_AutoPrimary ==
    (settings.ai_provider = "auto" /\ gcalls # <<>>) =>
        /\ gcalls[1].provider = "gemini" <=> ~settings.openai_api_key
        /\ gcalls[1].provider = "openai" <=> settings.openai_api_key

\* the chat stream was served by the free-tier provider first, in automatic
\* mode, with no paid credential
C13_Witness ==
    /\ settings.ai_provider = "auto"
    /\ ~settings.openai_api_key
    /\ task = "chat"
    /\ gpc = "returned"
    /\ gcalls[1].provider = "gemini"
    /\ yielded # <<>>

\* C14: when the preference names one provider and that provider fails, the
\* failure is surfaced as a generation error (a ValueError) and the other
\* provider is never called, even if it is configured.
C14_ExplicitNoFallback ==
    ( /\ settings.ai_provider \in {"openai", "gemini"}
      /\ gcalls # <<>>
      /\ gcalls[1].provider = settings.ai_provider
      /\ gcalls[1].outcome = "error" )
    => /\ \A k \in 1..Len(gcalls) : gcalls[k].provider = settings.ai_provider
       /\ GenEnded => (gpc = "raised" /\ gresult.exc = "ValueError")

\* C15: in automatic mode, when the primary provider fails and the other
\* configured provider fails too, the caller receives the quota/billing
\* message if the paid provider's error matched the quota signal and a
\* generic generation error (a ValueError) otherwise, never the provider's
\* own exception.
C15_BothFailClassified ==
    ( /\ settings.ai_provider = "auto"
      /\ settings.openai_api_key /\ settings.gemini_api_key
      /\ GenEnded
      /\ HasFailed("openai") /\ HasFailed("gemini") )
    => /\ gpc = "raised"
       /\ gresult.exc = "ValueError"
       /\ gresult = IF is_quota_error(CallsTo("openai")[1].error)
                    THEN QuotaError
                    ELSE WrappedError(task, "openai")

\* C16: with no generation provider credential configured, the call fails
\* with the configuration error and no provider is called, whatever the
\* preference and whichever of the three functions is called.
C16_NoProviderConfigured ==
    (~settings.openai_api_key /\ ~settings.gemini_api_key) =>
        /\ gcalls = <<>>
        /\ gpc \notin Running
        /\ gthread = "idle"
        /\ gpc \notin {"start", "cancelled"} =>
              /\ gpc = "raised"
              /\ gresult = NoProviderError
              /\ task = "chat" => sse = <<ErrorFragment(NoProviderError)>>

\* the chat stream ended with the configuration error although the preference
\* names a provider
C16_Witness ==
    /\ ~settings.openai_api_key /\ ~settings.gemini_api_key
    /\ settings.ai_provider = "gemini"
    /\ task = "chat"
    /\ gpc = "raised"
    /\ gresult = NoProviderError

\* C17: for flashcards and quiz and whichever provider serves the request,
\* when parsing the first response yields no item the same provider is called
\* exactly once more before the result is returned, and when it yields an
\* item there is no second call.
C17_SingleRetryOnEmpty ==
    (task \in Structured /\ gpc = "returned") =>
        LET served == CallsOf(ginv)
        IN  /\ served # <<>>
            /\ served[1].outcome = "no_items" =>
                  /\ Len(served) = 2
                  /\ served[2].provider = served[1].provider
            /\ served[1].outcome = "items" => Len(served) = 1

\* the fragments of the stream of provider function call n that the consumer
\* has read
ReadOf(n) == SelectSeq(yielded, LAMBDA f : f.inv = n)

\* C18: when the chat stream's provider fails after emitting k fragments and
\* no fallback provider is configured, the consumer receives exactly those k
\* fragments, in order, each once, then exactly one terminal error fragment and
\* nothing after it.
C18_FragmentsThenOneError ==
    ( /\ task = "chat"
      /\ GenEnded
      /\ settings.openai_api_key # settings.gemini_api_key
      /\ gcalls # <<>>
      /\ gcalls[1].outcome = "error" )
    => LET failed == gcalls[1]
       IN  /\ Len(sse) = failed.fragments + 1
           /\ \A k \in 1..failed.fragments :
                 sse[k] = Fragment(failed.provider, failed.inv, k)
           /\ sse[Len(sse)].by = "[ERROR]"

\* C19: for every provider the fragments of the chat stream are produced
\* lazily and the production can be cancelled: a fragment is requested from
\* the provider only as the consumer reads the stream, and after the consumer
\* has disconnected no further fragment is requested and none stays buffered.
C19_LazyAndCancellable ==
    task = "chat" =>
        /\ \A k \in 1..Len(gcalls) : gcalls[k].fragments <= Len(ReadOf(gcalls[k].inv))
        /\ ~connected => buffer = <<>>

\* C20: in every flashcards or quiz request, to either provider, the source
\* content is the first 12,000 characters of the content, followed by the
\* truncation marker if and only if the content was longer than 12,000
\* characters; no request carries more than 12,000 characters of source content.
C20_SourceTruncated ==
    task \in Structured =>
        \A k \in 1..Len(gcalls) :
            LET src == gcalls[k].source
                long == Len(content) > max_chars
                kept == IF long THEN SubSeq(src, 1, Len(src) - Len(Marker)) ELSE src
            IN  /\ long => IsSuffix(Marker, src)
                /\ Len(kept) <= max_chars
                /\ kept = SubSeq(content, 1, Min(max_chars, Len(content)))

\* a quiz request to each provider was built from a content longer than
\* max_chars
C20_Witness ==
    /\ task = "quiz"
    /\ Len(content) > max_chars
    /\ Len(gcalls) >= 2
    /\ gcalls[1].provider = "openai"
    /\ gcalls[2].provider = "gemini"
    /\ Len(gcalls[2].source) = max_chars + Len(Marker)

(***************************************************************************)
(* Properties of _parse_json_array, the quiz post-processing and the       *)
(* flashcards and quiz routes.                                             *)
(***************************************************************************)
\* _parse_json_array has returned for the response of the first call
ParsedFirst == ppc = "parsed" /\ ginv = 1 /\ tries = 1

\* C21: whatever text the provider returned, no exception leaves
\* generate_flashcards or generate_quiz on account of that text: with a
\* provider configured and every API call answered, the chain does not raise.
C21_ParseFailureNeverEscapes ==
    gpc # "raised"

\* each array of mappings tried, with its serialization in each wrapping, as
\* _parse_json_array sees it after the first strip
WrappedArrays ==
    {[array |-> A, wrapping |-> w, text |-> Strip(Wrap(w, Serialize(A)))] :
        A \in MappingArrays, w \in Wrappers}

\* C22: for every JSON array A of mappings, _parse_json_array returns A when
\* given A's serialization bare, inside a complete code fence, after an opening
\* fence only, before a closing fence only, or surrounded by prose that holds
\* no square bracket.
C22_WrappedArrayRecovered ==
    ParsedFirst =>
        \A case \in WrappedArrays : raw = case.text => parsed_items = case.array.v

\* C23: every element of the list _parse_json_array returns is a mapping, and
\* so is every element a provider function hands to its caller.
C23_OnlyMappingsReturned ==
    /\ ppc \in {"parsed", "processed"} => \A n \in 1..Len(parsed_items) :
                                              parsed_items[n].t = "dict"
    /\ gpc = "returned" => \A n \in 1..Len(gresult.items) : gresult.items[n].t = "dict"

\* the items of the response the provider function returned from, as the
\* provider wrote them
ProviderItems == _parse_json_array(response_text)

\* the answer the provider gave in item d: the value of correctAnswer when the
\* key is there, else the value of correct_answer
GivenAnswer(d) ==
    IF DictHas(d, K_correctAnswer) THEN DictGet(d, K_correctAnswer)
    ELSE DictGetOr(d, K_correct_answer, None)

\* the given answer as text, trimmed and upper-cased, or A when that is no
\* recognized letter
ExpectedAnswer(d) ==
    LET letter == Upper(Strip(py_str(GivenAnswer(d))))
    IN  IF letter \in {<<"A">>, <<"B">>, <<"C">>, <<"D">>} THEN letter ELSE <<"A">>

\* C24: every quiz item generate_quiz returns has no correctAnswer key, and an
\* answer given under correctAnswer is stored under correct_answer trimmed and
\* upper-cased; every quiz item the route returns has as correct_answer the
\* given answer trimmed and upper-cased when that is one of A, B, C, D, and A
\* otherwise, whichever of the two keys the provider used.
C24_AnswerKeyNormalised ==
    /\ (task = "quiz" /\ gpc = "returned" /\ ppc = "idle") =>
          LET given == ProviderItems
          IN  \A n \in 1..Len(gresult.items) :
                  /\ ~DictHas(gresult.items[n].v, K_correctAnswer)
                  /\ DictHas(given[n].v, K_correctAnswer) =>
                        DictGet(gresult.items[n].v, K_correct_answer)
                            = JStr(Upper(Strip(py_str(GivenAnswer(given[n].v)))))
    /\ (task = "quiz" /\ ppc = "done" /\ http.status = "200") =>
          LET given == ProviderItems
          IN  \A n \in 1..Len(quiz_items) :
                  quiz_items[n].correct_answer = ExpectedAnswer(given[kept_idx[n]].v)

\* a quiz answered with an item whose answer came under correctAnswer with
\* whitespace around a lower-case letter
C24_Witness ==
    /\ task = "quiz"
    /\ ppc = "done"
    /\ http.status = "200"
    /\ LET given == ProviderItems
       IN  \E n \in 1..Len(quiz_items) :
               /\ DictHas(given[kept_idx[n]].v, K_correctAnswer)
               /\ GivenAnswer(given[kept_idx[n]].v) = JStr(<<" ", "b", " ">>)
               /\ quiz_items[n].correct_answer = <<"B">>

\* the question and the explanation of item d are strings or missing
TextFieldsAreText(d) ==
    /\ DictGetOr(d, K_question, None).t = "str"
    /\ DictGetOr(d, K_explanation, None).t = "str"

\* C29: when generate_quiz returned items whose question and explanation are
\* text, the quiz endpoint answers, whatever the options of the items are, and
\* every item it returns has a non-empty question and between 2 and 6 options.
C29_OutOfShapeItemsDropped ==
    (/\ task = "quiz"
     /\ ppc = "done"
     /\ gpc = "returned"
     /\ \A n \in 1..Len(gresult.items) : TextFieldsAreText(gresult.items[n].v)) =>
        /\ http.status = "200"
        /\ \A n \in 1..Len(quiz_items) :
              /\ quiz_items[n].question # <<>>
              /\ Len(quiz_items[n].options) >= min_options
              /\ Len(quiz_items[n].options) <= max_options

\* C30: when the text left by the fence handling is no JSON array as a whole
\* (it is no JSON at all, or a JSON object or scalar) and its part from the
\* first "[" to the last "]" is a JSON array, _parse_json_array returns that
\* array.
C30_InnerArrayRecovered ==
    ppc = "parsed" =>
        LET whole == json_loads(json_text)
            start == FindFrom(json_text, <<"[">>, 1)
            end == RFind(json_text, <<"]">>)
            inner == json_loads(SubSeq(json_text, start, end))
        IN  (/\ ~(whole.ok /\ whole.val.t = "list")
             /\ start # 0
             /\ end > start
             /\ inner.ok
             /\ inner.val.t = "list") => parsed_items = inner.val.v

(***************************************************************************)
(* Properties of clean_text and of the sentence split of chunk_text.       *)
(***************************************************************************)
\* chunk_text has cleaned and split its text
ChunkSplit == cpc \in {"loop", "done"}

\* text[from..to] is a run of newlines between two characters that are no
\* whitespace
NewlineRunAt(from, to) ==
    /\ from > 1
    /\ to < Len(text)
    /\ from <= to
    /\ \A n \in from..to : text[n] = "\n"
    /\ ~IsSpace(text[from - 1])
    /\ ~IsSpace(text[to + 1])

\* C25: clean_text keeps paragraph breaks: where the text holds a run of three
\* or more newlines between two words, the cleaned text holds exactly two
\* newlines between the cleaned parts before and after the run.
C25_ParagraphBreaksKept ==
    ChunkSplit =>
        \A from \in 1..Len(text), to \in 1..Len(text) :
            (NewlineRunAt(from, to) /\ to - from + 1 >= 3) =>
                clean_text(text) = clean_text(Take(text, from - 1)) \o <<"\n", "\n">>
                                   \o clean_text(Drop(text, to))

\* C26: a newline run ends a sentence: where the text holds a run of newlines
\* between two words, the sentences of the text are the sentences of the part
\* before the run followed by the sentences of the part after it.
C26_NewlineEndsSentence ==
    ChunkSplit =>
        \A from \in 1..Len(text), to \in 1..Len(text) :
            NewlineRunAt(from, to) =>
                sentences = split_sentences(clean_text(Take(text, from - 1)))
                            \o split_sentences(clean_text(Drop(text, to)))

(***************************************************************************)
(* Properties of the ingestion scenario.                                   *)
(***************************************************************************)
\* a non-empty end of chunk a is the beginning of chunk b
SharesTail(a, b) ==
    \E n \in 1..Min(Len(a), Len(b)) : SubSeq(a, Len(a) - n + 1, Len(a)) = Take(b, n)

\* every sentence fits in the overlap together with the space that joins it
SentencesFitOverlap == \A n \in 1..Len(sentences) : Len(sentences[n]) + 1 <= overlap

C28_StoreQuerySuspends ==
    \A r \in RequestIds :
        [req |-> r, kind |-> "store"] \in inflight => loop_owner # r

(***************************************************************************)
(* Properties of the overlap seed of chunk_text.                           *)
(***************************************************************************)
\* the last sentence of chunks[c]
LastSentenceOf(c) ==
    LET ss == SentencesOf(chunks[c]) IN ss[Len(ss)]

\* the number of sentences of the text placed in chunks[1..c]
PlacedBy(c) == Len(RemainderSentences(c))

\* C31: the overlap seed that starts a new chunk never exceeds overlap
\* characters; it is empty when overlap is 0 or when the last sentence of the
\* closed chunk does not fit in overlap, and then the new chunk starts with
\* the next sentence of the text alone.
C31_SeedWithinOverlap ==
    \A c \in 1..Len(seeds) :
        /\ Len(seeds[c]) <= overlap
        /\ (overlap = 0 \/ Len(LastSentenceOf(c)) > overlap) =>
              /\ seeds[c] = <<>>
              /\ PlacedBy(c) < Len(sentences)
              /\ SentencesOf(FollowerOf(c))[1] = sentences[PlacedBy(c) + 1]

\* a finished run with overlap > 0 that closed a chunk whose last sentence does
\* not fit in overlap: the chunk after it is the next sentence alone
C31_Witness ==
    /\ ChunkDone
    /\ overlap > 0
    /\ \E c \in 1..Len(seeds) :
          /\ Len(LastSentenceOf(c)) > overlap
          /\ seeds[c] = <<>>
          /\ chunks[c + 1] = sentences[PlacedBy(c) + 1]

(***************************************************************************)
(* Properties of the chat route.                                           *)
(***************************************************************************)
\* the response stream has ended because of a failure
StreamFailed == task = "chat" /\ gpc \in {"raised", "aborted"}

\* C32: every chat response stream that ends because of a failure, in context
\* retrieval (an embedding or store error of any exception type) or in
\* generation, has exactly one [ERROR] fragment, and it is its last fragment.
C32_FailureEndsWithMarker ==
    StreamFailed =>
        /\ sse # <<>>
        /\ sse[Len(sse)].by = "[ERROR]"
        /\ \A k \in 1..(Len(sse) - 1) : sse[k].by # "[ERROR]"

\* generate_embeddings has answered this call with vectors
EmbeddingSucceeded == eresult.kind = "ok"

\* a step that changes the rows of table documents or document_chunks
StoreChanges == store_documents' # store_documents \/ store_chunks' # store_chunks

\* C33: upsert_document performs no store write (document insert, chunk
\* delete, chunk insert) unless chunking produced at least one chunk and
\* embedding generation succeeded: a content without chunks fails with a
\* ValueError before any embedding provider is called, and when embedding
\* fails the documents and chunks of the store are unchanged.
C33_NoWriteBeforeEmbedding ==
    /\ [](/\ writes # <<>> => chunks # <<>> /\ EmbeddingSucceeded
          /\ (upc = "raised" /\ cpc = "done" /\ chunks = <<>>) =>
                /\ uresult = URaised("ValueError", "No chunks generated from content")
                /\ attempts = <<>>
                /\ requests = <<>>
                /\ writes = <<>>
          /\ (upc = "raised" /\ eresult.kind = "raise") =>
                /\ writes = <<>>
                /\ store_documents = {})
    /\ [][StoreChanges =>
             /\ Len(writes') = Len(writes) + 1
             /\ chunks # <<>>
             /\ EmbeddingSucceeded]_vars

\* an upsert over a document with older rows ended by a failure of
\* generate_embeddings, the older rows still there
C33_Witness ==
    /\ upc = "raised"
    /\ eresult.kind = "raise"
    /\ chunks # <<>>
    /\ attempts # <<>>
    /\ Cardinality(RowsOf(store_chunks, document_id)) = MaxRows

(***************************************************************************)
(* Properties of the provider chain of generate_embeddings.                *)
(***************************************************************************)
\* the provider whose attempt answered the call
AnsweredBy == attempts[Len(attempts)].provider

\* C34: the vectors returned by one generate_embeddings call all come from a
\* single provider: when a provider failed after some of its batches were
\* answered, their vectors are discarded and the provider that answers embeds
\* the whole input from the first item.
C34_SingleProviderVectors ==
    (epc = "returned" /\ texts # <<>>) =>
        /\ attempts[Len(attempts)].outcome = "ok"
        /\ Len(eresult.vectors) = Len(texts)
        /\ \A k \in 1..Len(texts) :
              /\ eresult.vectors[k].src = AnsweredBy
              /\ eresult.vectors[k].of = texts[k]
        /\ RequestsTo(AnsweredBy)[1].first = 0
        /\ \A p \in Providers \ {AnsweredBy} :
              Attempted(p) => Failed(p)

\* a call of more than one batch answered by the local model after the paid
\* provider had answered a batch and failed on the next
C34_Witness ==
    /\ epc = "returned"
    /\ Len(texts) > BatchSize
    /\ Failed("openai")
    /\ Len(RequestsTo("openai")) >= 2
    /\ all_embeddings # <<>>
    /\ AnsweredBy = "local"
    /\ eresult.vectors[1].src = "local"

\* C35: in every configuration of credentials and provider preference, a
\* generation provider that has raised an error during one generate_flashcards,
\* generate_quiz or chat_completion_stream call is not invoked again within
\* that same call.
C35_FailedProviderNotReinvoked ==
    \A j \in 1..Len(gcalls) :
        \A k \in (j + 1)..Len(gcalls) :
            gcalls[j].outcome = "error" => gcalls[k].provider # gcalls[j].provider

\* C36: all fragments that chat_completion_stream yields for one response come
\* from a single provider: once a fragment of the primary provider has been
\* yielded, a failure of that provider never makes fragments of the other
\* provider follow in the same response.
C36_FragmentsOfOneProvider ==
    task = "chat" =>
        \A j \in 1..Len(yielded) :
            \A k \in 1..Len(yielded) : yielded[j].by = yielded[k].by

\* the insert_chunk writes of this call that the store accepted
AcceptedInserts ==
    {k \in 1..Len(writes) : writes[k].op = "insert_chunk" /\ k # uenv.fail_at}

\* C37: the chunk count upsert_document returns equals the number of chunk
\* rows it inserted into the store, also when the embedding provider returns
\* fewer or more vectors than there are chunks.
C37_CountIsRowsInserted ==
    upc = "returned" =>
        /\ uresult.value = Cardinality(AcceptedInserts)
        /\ uresult.value = Cardinality(RowsOf(store_chunks, document_id))

(***************************************************************************)
(* Properties of the items the quiz endpoint returns.                      *)
(***************************************************************************)
\* the position in the alphabet of an answer letter the route lets through
LetterPosition(letter) ==
    CASE letter = <<"A">> -> 1
      [] letter = <<"B">> -> 2
      [] letter = <<"C">> -> 3
      [] letter = <<"D">> -> 4

\* C38: for every quiz item the quiz endpoint returns, the answer key
\* designates one of the item's own options: the position of the
\* correct_answer letter in the alphabet (A = 1, B = 2, ...) is at most the
\* number of options of the item.
C38_AnswerKeyIsAnOption ==
    (task = "quiz" /\ ppc = "done" /\ http.status = "200") =>
        \A k \in 1..Len(quiz_items) :
            LetterPosition(quiz_items[k].correct_answer) <= Len(quiz_items[k].options)

\* the call ended with the 'No embedding provider available' ValueError
RaisedNoEmbeddingProvider ==
    /\ epc = "raised"
    /\ eresult.exc = "ValueError"
    /\ eresult.msg = "No embedding provider available"

\* C39: generate_embeddings raises the 'No embedding provider available'
\* configuration error only when no hosted provider credential is configured;
\* when a configured provider was attempted and failed and nothing else is
\* available, the error that reaches the caller is not that of a missing
\* configuration.
C39_ConfigErrorOnlyUnconfigured ==
    RaisedNoEmbeddingProvider =>
        /\ ~settings.openai_api_key
        /\ ~settings.gemini_api_key
        /\ attempts = <<>>

=============================================================================
